---- MODULE Spec2Model ----
(***************************************************************************)
(* A model of the da Vinci print server: the V3 serial session             *)
(* (XYZDaVinciPlugin/XYZProtocol.py) and the PrinterManager that shares it *)
(* between the HTTP host thread, the status poller threads and the job     *)
(* threads (app.py).                                                       *)
(*                                                                         *)
(* Spec        the manager: host requests, pollers and jobs interleaved.   *)
(* SpecUpload  one upload_file call on a connected session, with payloads  *)
(*             that cross the 8192-byte block boundary.                    *)
(***************************************************************************)
EXTENDS Integers, Sequences, FiniteSets, TLC

\* ---------------------------------------------------------------- bounds

\* Poller threads one run may start (one per successful connect).
MaxPollers == 2

\* Job threads one run may start.
MaxJobs == 2

\* The largest payload of SpecUpload spans MaxBlocks full blocks and a byte.
MaxBlocks == 2

\* ------------------------------------------------------ program constants

\* XYZProtocol.TIMEOUT: seconds, also the serial port's read timeout.
TIMEOUT == 5

\* XYZProtocol.UPLOAD_TIMEOUT: seconds allowed for a block's acknowledgement.
UPLOAD_TIMEOUT == 30

\* upload_file's block_size.
BlockSize == 8192

\* ------------------------------------------------------------ thread ids

Free == [t |-> "free", i |-> 0]

Host == [t |-> "host", i |-> 0]

Poller(i) == [t |-> "poller", i |-> i]

Job(j) == [t |-> "job", i |-> j]

PollerIds == 1..MaxPollers

JobIds == 1..MaxJobs

\* ------------------------------------------------------------- the bytes

Min(a, b) == IF a < b THEN a ELSE b

Max(a, b) == IF a < b THEN b ELSE a

\* The payload handed to upload_file: n bytes, "ABCDE..." for the first ones.
Payload(n) == [i \in 1..n |-> (64 + i) % 256]

\* Python's data[a:b] on a bytes object: indices from 0, the end clamped.
Slice(data, a, b) == SubSeq(data, a + 1, Min(b, Len(data)))

\* struct.pack(">I", x): four bytes, most significant first.
BE32(x) == << (x \div 16777216) % 256, (x \div 65536) % 256, (x \div 256) % 256, x % 256 >>

\* The header packed "<II", low byte first.
LE32(x) ==
    << x % 256, (x \div 256) % 256, (x \div 65536) % 256, (x \div 16777216) % 256 >>

FrameLittleEndian(block_num, chunk) ==
    LE32(block_num) \o LE32(Len(chunk)) \o chunk \o <<0, 0, 0, 0>>

\* header + chunk + footer of one upload block.
Frame(block_num, chunk) == BE32(block_num) \o BE32(Len(chunk)) \o chunk \o <<0, 0, 0, 0>>

\* ------------------------------------------------------- the reply texts

\* str.lower() on the characters the replies use.
LowerChar(c) ==
    CASE c = "O" -> "o"
      [] c = "K" -> "k"
      [] c = "E" -> "e"
      [] c = "R" -> "r"
      [] OTHER -> c

Lower(text) == [i \in 1..Len(text) |-> LowerChar(text[i])]

\* Python's `pat in text`.
Contains(text, pat) ==
    \E s \in 0..(Len(text) - Len(pat)) :
        \A i \in 1..Len(pat) : text[s + i] = pat[i]

TokOk == <<"o", "k">>

TokErr == <<"e", "r", "r">>

TokError == <<"e", "r", "r", "o", "r">>

\* What the printer sends after one write: the chunks that successive reads
\* return, each with the second it arrives in, or an I/O error of the port.
\* ReplyOkSlow is in time for a block and too late for a command, ReplyOkLate
\* is too late for both; ReplyErr
\* is "Err"; ReplyErrorToken is "error:token" arriving in one read.
Chunk(at, text) == [at |-> at, text |-> text]

Reply(chunks) == [fail |-> FALSE, chunks |-> chunks]

ReplyIoError == [fail |-> TRUE, chunks |-> <<>>]

ReplyNone == Reply(<<>>)

ReplyOk == Reply(<<Chunk(1, <<"o", "k">>)>>)

ReplyOkSlow == Reply(<<Chunk(10, <<"o", "k">>)>>)

ReplyOkLate == Reply(<<Chunk(40, <<"o", "k">>)>>)

ReplyErr == Reply(<<Chunk(1, <<"E", "r", "r">>)>>)

ReplyErrorToken ==
    Reply(<<Chunk(1, <<"e", "r", "r", "o", "r", ":", "t", "o", "k", "e", "n">>)>>)

Replies ==
    { ReplyIoError, ReplyNone, ReplyOk, ReplyOkSlow, ReplyOkLate, ReplyErr,
      ReplyErrorToken }

\* The replies the uploads of Spec get.
ManagerReplies == { ReplyNone, ReplyOk }

\* All the text of a reply, whenever it arrives.
RECURSIVE ReplyText(_)
ReplyText(chunks) ==
    IF chunks = <<>> THEN <<>> ELSE chunks[1].text \o ReplyText(Tail(chunks))

\* _wait_for_ok from second t on, the chunks before index i already in buf.
\* A read returns the next chunk if it arrives before the port's read timeout,
\* and nothing after TIMEOUT seconds otherwise.
RECURSIVE WaitLoop(_, _, _, _, _)
WaitLoop(chunks, timeout, i, t, buf) ==
    IF ~(t < timeout) THEN FALSE
    ELSE IF i > Len(chunks) THEN FALSE
    ELSE IF chunks[i].at >= t + TIMEOUT
         THEN WaitLoop(chunks, timeout, i, t + TIMEOUT, buf)
    ELSE LET text == Lower(buf \o chunks[i].text) IN
         IF Contains(text, TokOk) THEN TRUE
         ELSE IF Contains(text, TokErr) \/ Contains(text, TokError) THEN FALSE
         ELSE WaitLoop(chunks, timeout, i + 1, Max(t, chunks[i].at), buf \o chunks[i].text)

WaitForOk(chunks, timeout) == WaitLoop(chunks, timeout, 1, 0, <<>>)

\* ------------------------------------------------------------- the state

\* -------------------------------------------------- _send_command replies

\* bytes.replace / str.replace of one character by nothing.
Without(text, c) == SelectSeq(text, LAMBDA x : x # c)

Whitespace == {" ", "\t", "\n", "\r"}

\* str.strip()
RECURSIVE Strip(_)
Strip(text) ==
    IF text = <<>> THEN text
    ELSE IF Head(text) \in Whitespace THEN Strip(Tail(text))
    ELSE IF text[Len(text)] \in Whitespace THEN Strip(SubSeq(text, 1, Len(text) - 1))
    ELSE text

\* The read loop of _send_command from second t on: it ends with the read
\* that brings a `$`, or when the deadline has passed.
RECURSIVE ReadLoop(_, _, _, _)
ReadLoop(chunks, i, t, response) ==
    IF ~(t < TIMEOUT) THEN response
    ELSE IF i > Len(chunks) THEN response
    ELSE IF chunks[i].at >= t + TIMEOUT THEN ReadLoop(chunks, i, t + TIMEOUT, response)
    ELSE LET got == response \o chunks[i].text IN
         IF Contains(got, <<"$">>) THEN got
         ELSE ReadLoop(chunks, i + 1, Max(t, chunks[i].at), got)

\* What _send_command returns for a reply that raises nothing: the text
\* read, its `$` removed, stripped.
ResponseText(r) == Strip(Without(ReadLoop(r.chunks, 1, 0, <<>>), "$"))

Text(at, text) == Reply(<<Chunk(at, text)>>)

\* The replies to a command: ok$, OK$, an error E0$, an error that names
\* itself ok, other text, text in white space, ok in two reads, ok without
\* `$`, ok$ after the timeout, nothing, and an I/O error of the port.
CommandReplies ==
    { Text(1, <<"o", "k", "$">>),
      Text(1, <<"O", "K", "$">>),
      Text(1, <<"E", "0", "$">>),
      Text(1, <<"E", "0", "o", "k", "$">>),
      Text(1, <<"x", "$">>),
      Text(1, <<" ", "x", "\n", "$">>),
      Reply(<<Chunk(1, <<"o">>), Chunk(2, <<"k", "$">>)>>),
      Text(1, <<"o", "k">>),
      Text(10, <<"o", "k", "$">>),
      ReplyNone,
      ReplyIoError }

TokE0 == <<"E", "0">>

\* The commands that return `"ok" in resp.lower() or "E0" not in resp`.
LenientCommands ==
    { "home", "load_filament_start", "load_filament_cancel", "unload_filament_start",
      "unload_filament_cancel", "cancel_print", "pause_print", "resume_print",
      "calibrate_start", "clean_nozzle_start", "clean_nozzle_cancel", "jog",
      "z_offset_set" }

\* The commands that return `"ok" in resp.lower()`.
StrictCommands == { "auto_level_on", "auto_level_off", "buzzer_on", "buzzer_off" }

Commands == LenientCommands \cup StrictCommands

\* The return statement of command c for the response text.
CommandTest(c, text) ==
    IF c \in StrictCommands THEN Contains(Lower(text), TokOk)
    ELSE Contains(Lower(text), TokOk) \/ ~Contains(text, TokE0)

VARIABLES
    serial,          \* XYZProtocol._serial: "none" or "open"
    proto_connected, \* XYZProtocol._connected
    connected,       \* PrinterManager.connected
    port,            \* PrinterManager.port
    lock,            \* PrinterManager._lock: the thread holding it, or Free
    monitor_active,  \* PrinterManager._monitor_active
    monitor_thread,  \* PrinterManager._monitor_thread: a poller id, 0 for None
    job_status,      \* PrinterManager._job_status
    host,            \* the HTTP server's one thread: where it is in a request
    poller,          \* each StatusMonitor thread: where it is in _monitor_loop
    job,             \* each SliceAndPrint/SendGcode thread and its upload_file call
    wire,            \* the serial traffic from an upload's initiation line to
                     \* its return, kept until its caller has read the result
    orphan,          \* a serial handle the session opened is still open and
                     \* XYZProtocol._serial no longer refers to it
    call,            \* the last call made on the XYZProtocol object directly:
                     \* its inputs and what it returned
    status           \* the XYZPrinterStatus objects: the ones made so far, the
                     \* one PrinterManager._status refers to, the one a
                     \* get_status call reads and what it has read

vars ==
    << serial, proto_connected, connected, port, lock, monitor_active,
       monitor_thread, job_status, host, poller, job, wire, orphan, call, status >>

\* XYZProtocol.is_connected
is_connected == proto_connected /\ serial # "none"

Ports == {"COM3"}

Filename == "t.gcode"

NoLog == [msg |-> "", block |-> 0]

\* `callbacks` counts the calls of progress_callback.
UnusedJob ==
    [pc |-> "unused", size |-> 0, offset |-> 0, block_num |-> 0, callbacks |-> 0,
     success |-> FALSE, log |-> NoLog]

ExitedJob == [UnusedJob EXCEPT !.pc = "exit"]

IdleStatus == [active |-> FALSE, stage |-> ""]

\* The host thread between two requests.
IdleHost == [pc |-> "idle"]

\* A field of XYZPrinterStatus object q: its default, or a parsed value.
Field(q, parsed) == [q |-> q, parsed |-> parsed]

\* XYZPrinterStatus() as object q: every field at its default.
BlankStatus(q) == [state |-> Field(q, FALSE), extruder_temp |-> Field(q, FALSE)]

\* PrinterManager.__init__: _status is the first object, and no get_status
\* call has read anything.
NoStatus ==
    [made |-> 1, heap |-> <<BlankStatus(1)>>, ref |-> 1, s |-> 1, view |-> BlankStatus(1)]

\* No call was made on the protocol object yet.
NoCall == [op |-> "none"]

\* ---------------------------------------------------------- the wire log

Event(ev, kind, who, data) == [ev |-> ev, kind |-> kind, who |-> who, data |-> data]

\* An upload wrote its initiation line and did not return yet.
WireOpen == wire # <<>> /\ wire[Len(wire)].ev # "ret"

\* The log after `who` wrote to the port: an initiation line starts it anew.
Written(who, kind, data) ==
    IF kind = "upload" THEN <<Event("tx", kind, who, data)>>
    ELSE IF WireOpen THEN Append(wire, Event("tx", kind, who, data))
    ELSE wire

\* The log `w` after `who` read reply r from the port.
Received(w, who, r) ==
    IF w # <<>> /\ w[Len(w)].ev # "ret" THEN Append(w, Event("rx", "reply", who, r)) ELSE w

\* The log `w` after who's upload_file returned ok.
Returned(w, who, ok) ==
    IF w # <<>> /\ w[Len(w)].ev # "ret" THEN Append(w, Event("ret", "return", who, ok)) ELSE w

\* ----------------------------------------------------------- upload_file
\* Thread j runs `with self._lock: success = self.protocol.upload_file(...)`.
\* One action is one write to the port and the wait for its acknowledgement.

\* upload_file returns `ok` after logging `log`; the `with` block ends.
UploadReturn(j, w, ok, log) ==
    /\ job' = [job EXCEPT ![j].pc = "result", ![j].success = ok, ![j].log = log]
    /\ wire' = Returned(w, Job(j), ok)
    /\ lock' = Free

\* A block loop that makes its first pass before it tests the offset.
AfterAckOnePass(j, offset, block_num) ==
    [job[j] EXCEPT !.offset = offset, !.block_num = block_num,
                   !.pc = IF offset < job[j].size \/ block_num = 0 THEN "frame" ELSE "finish"]

\* The state of the block loop once `offset` bytes are acknowledged.
AfterAck(j, offset, block_num) ==
    [job[j] EXCEPT !.offset = offset, !.block_num = block_num,
                   !.pc = IF offset < job[j].size THEN "frame" ELSE "finish"]

\* The except clause: an I/O error of the port ends the upload.
UploadFailed(j, w) ==
    UploadReturn(j, w, FALSE, [msg |-> "Upload failed", block |-> job[j].block_num])

\* The upload going on unless the printer answered with an error.
InitAckUnlessError(r) == ~Contains(Lower(ReplyText(r.chunks)), TokErr)

BlockAckUnlessError(r) == ~Contains(Lower(ReplyText(r.chunks)), TokErr)

\* upload_file returning False when the final `ok` is missing.
FinishResultStrict(r) == WaitForOk(r.chunks, TIMEOUT)

\* `if not self._wait_for_ok():` after the initiation line.
InitAcked(r) == WaitForOk(r.chunks, TIMEOUT)

\* `if not self._wait_for_ok(timeout=self.UPLOAD_TIMEOUT):` after a block.
BlockAcked(r) == WaitForOk(r.chunks, UPLOAD_TIMEOUT)

\* What upload_file returns once the reply to XYZv3/uploadDidFinish was
\* awaited: a missing `ok` is logged only.
FinishResult(r) == TRUE

\* upload_file without its is_connected test.
UploadInitUnchecked(j, replies) ==
    /\ job[j].pc = "upload"
    /\ lock = Job(j)
    /\ \E ioerr \in BOOLEAN, r \in replies :
         LET sent == Written(Job(j), "upload", [name |-> Filename, size |-> job[j].size])
             w == Received(sent, Job(j), r)
         IN  IF ioerr THEN UploadFailed(j, wire)
             ELSE IF r.fail THEN UploadFailed(j, w)
             ELSE IF ~InitAcked(r)
             THEN UploadReturn(j, w, FALSE,
                               [msg |-> "Printer rejected upload initiation", block |-> 0])
             ELSE /\ job' = [job EXCEPT ![j] = AfterAck(j, 0, 0)]
                  /\ wire' = w
                  /\ UNCHANGED lock
    /\ UNCHANGED << serial, proto_connected, connected, port, monitor_active,
                    monitor_thread, job_status, host, poller,
                    orphan, call, status >>

\* The is_connected test, the initiation line and _wait_for_ok().
UploadInit(j, replies) ==
    /\ job[j].pc = "upload"
    /\ lock = Job(j)
    /\ IF ~is_connected
       THEN UploadReturn(j, wire, FALSE, NoLog)
       ELSE \E ioerr \in BOOLEAN, r \in replies :
            LET sent == Written(Job(j), "upload", [name |-> Filename, size |-> job[j].size])
                w == Received(sent, Job(j), r)
            IN  IF ioerr THEN UploadFailed(j, wire)
                ELSE IF r.fail THEN UploadFailed(j, w)
                ELSE IF ~InitAcked(r)
                THEN UploadReturn(j, w, FALSE,
                                  [msg |-> "Printer rejected upload initiation", block |-> 0])
                ELSE /\ job' = [job EXCEPT ![j] = AfterAck(j, 0, 0)]
                     /\ wire' = w
                     /\ UNCHANGED lock
    /\ UNCHANGED << serial, proto_connected, connected, port, monitor_active,
                    monitor_thread, job_status, host, poller,
                    orphan, call, status >>

\* One pass of the block loop: a block is cut from the payload, framed and
\* written, and _wait_for_ok(timeout=UPLOAD_TIMEOUT) decides whether the
\* loop goes on; progress_callback is called after an acknowledged block.
UploadFrame(j, replies) ==
    /\ job[j].pc = "frame"
    /\ LET chunk == Slice(Payload(job[j].size), job[j].offset, job[j].offset + BlockSize) IN
       \E ioerr \in BOOLEAN, r \in replies :
         LET w == Received(Written(Job(j), "frame", Frame(job[j].block_num, chunk)), Job(j), r)
         IN  IF ioerr THEN UploadFailed(j, wire)
             ELSE IF r.fail THEN UploadFailed(j, w)
             ELSE IF ~BlockAcked(r)
             THEN UploadReturn(j, w, FALSE,
                               [msg |-> "No ack for block", block |-> job[j].block_num])
             ELSE /\ job' = [job EXCEPT ![j] =
                                [AfterAck(j, job[j].offset + Len(chunk), job[j].block_num + 1)
                                    EXCEPT !.callbacks = @ + 1]]
                  /\ wire' = w
                  /\ UNCHANGED lock
    /\ UNCHANGED << serial, proto_connected, connected, port, monitor_active,
                    monitor_thread, job_status, host, poller,
                    orphan, call, status >>

\* XYZv3/uploadDidFinish and the last _wait_for_ok(), whose answer is logged
\* and not returned.
UploadFinish(j, replies) ==
    /\ job[j].pc = "finish"
    /\ \E ioerr \in BOOLEAN, r \in replies :
         LET w == Received(Written(Job(j), "finish", <<>>), Job(j), r)
         IN  IF ioerr THEN UploadFailed(j, wire)
             ELSE IF r.fail THEN UploadFailed(j, w)
             ELSE UploadReturn(j, w, FinishResult(r),
                               [msg |-> "Upload complete", block |-> job[j].block_num])
    /\ UNCHANGED << serial, proto_connected, connected, port, monitor_active,
                    monitor_thread, job_status, host, poller,
                    orphan, call, status >>

\* The job thread's last statements without `active=False`.
JobResultActive(j) ==
    /\ job[j].pc = "result"
    /\ job_status' = [job_status EXCEPT !.stage = IF job[j].success THEN "done" ELSE "error"]
    /\ job' = [job EXCEPT ![j] = ExitedJob]
    /\ wire' = IF WireOpen THEN wire ELSE <<>>
    /\ UNCHANGED << serial, proto_connected, connected, port, lock, monitor_active,
                    monitor_thread, host, poller,
                    orphan, call, status >>

\* The job thread's last statements: the job record gets the upload's result.
JobResult(j) ==
    /\ job[j].pc = "result"
    /\ job_status' = [job_status EXCEPT !.stage = IF job[j].success THEN "done" ELSE "error",
                                        !.active = FALSE]
    /\ job' = [job EXCEPT ![j] = ExitedJob]
    /\ wire' = IF WireOpen THEN wire ELSE <<>>
    /\ UNCHANGED << serial, proto_connected, connected, port, lock, monitor_active,
                    monitor_thread, host, poller,
                    orphan, call, status >>

\* ------------------------------------------------------- the job threads

\* The sizes of the .3w buffers the jobs of Spec upload.
JobSizes == {3}

Running(j) == job[j].pc \notin {"unused", "exit"}

\* The thread slice_and_print or send_gcode_file starts next.
NextJob == CHOOSE j \in JobIds : job[j].pc = "unused" /\ \A k \in 1..(j - 1) : job[k].pc # "unused"

\* The first statement of _do_slice_and_print and _do_send_gcode: a new record.
JobStart(j) ==
    /\ job[j].pc \in {"start_slice", "start_gcode"}
    /\ job_status' = [active |-> TRUE,
                      stage |-> IF job[j].pc = "start_slice" THEN "slicing" ELSE "converting"]
    /\ job' = [job EXCEPT ![j].pc = IF job[j].pc = "start_slice" THEN "slice" ELSE "convert"]
    /\ UNCHANGED << serial, proto_connected, connected, port, lock, monitor_active,
                    monitor_thread, host, poller, wire,
                    orphan, call, status >>

\* Stage 1 of _do_slice_and_print: CuraEngine gives a G-code file, gives
\* none, or an exception reaches the handler.
JobSlice(j) ==
    /\ job[j].pc = "slice"
    /\ \E sliced \in BOOLEAN :
         IF sliced
         THEN /\ job_status' = [job_status EXCEPT !.stage = "converting"]
              /\ job' = [job EXCEPT ![j].pc = "convert"]
         ELSE /\ job_status' = [job_status EXCEPT !.stage = "error", !.active = FALSE]
              /\ job' = [job EXCEPT ![j] = ExitedJob]
    /\ UNCHANGED << serial, proto_connected, connected, port, lock, monitor_active,
                    monitor_thread, host, poller, wire,
                    orphan, call, status >>

\* The conversion to .3w: a buffer to upload, or an exception.
JobConvert(j) ==
    /\ job[j].pc = "convert"
    /\ \/ \E n \in JobSizes :
            /\ job_status' = [job_status EXCEPT !.stage = "uploading"]
            /\ job' = [job EXCEPT ![j].pc = "lock", ![j].size = n]
       \/ /\ job_status' = [job_status EXCEPT !.stage = "error", !.active = FALSE]
          /\ job' = [job EXCEPT ![j] = ExitedJob]
    /\ UNCHANGED << serial, proto_connected, connected, port, lock, monitor_active,
                    monitor_thread, host, poller, wire,
                    orphan, call, status >>

\* `with self._lock:` around upload_file.
JobLock(j) ==
    /\ job[j].pc = "lock"
    /\ lock = Free
    /\ lock' = Job(j)
    /\ job' = [job EXCEPT ![j].pc = "upload"]
    /\ UNCHANGED << serial, proto_connected, connected, port, monitor_active,
                    monitor_thread, job_status, host, poller, wire,
                    orphan, call, status >>

\* ---------------------------------------------------- the status pollers

Polling(i) == poller[i] \notin {"unused", "exit"}

\* The thread _start_monitor starts next.
NextPoller ==
    CHOOSE i \in PollerIds : poller[i] = "unused" /\ \A k \in 1..(i - 1) : poller[k] # "unused"

\* _monitor_loop skipping its ticks once a job record exists.
PollerLoopPaused(i) ==
    /\ poller[i] = "loop"
    /\ poller' = [poller EXCEPT ![i] =
                    IF ~monitor_active THEN "exit"
                    ELSE IF connected /\ job_status.stage = "" THEN "lock"
                    ELSE "loop"]
    /\ UNCHANGED << serial, proto_connected, connected, port, lock, monitor_active,
                    monitor_thread, job_status, host, job, wire,
                    orphan, call, status >>

\* `while self._monitor_active:` at thread start and after each sleep, and
\* `if self.connected and not self._job_status.get("stage") == "uploading":`
\* the thread exits, goes for the lock, or skips the tick and sleeps.
PollerLoop(i) ==
    /\ poller[i] = "loop"
    /\ poller' = [poller EXCEPT ![i] =
                    IF ~monitor_active THEN "exit"
                    ELSE IF connected /\ job_status.stage # "uploading" THEN "lock"
                    ELSE "loop"]
    /\ UNCHANGED << serial, proto_connected, connected, port, lock, monitor_active,
                    monitor_thread, job_status, host, job, wire,
                    orphan, call, status >>

\* _monitor_loop querying without `with self._lock:`.
PollerQueryUnlocked(i) ==
    /\ poller[i] = "lock"
    /\ poller' = [poller EXCEPT ![i] = "loop"]
    /\ \E ioerr \in BOOLEAN :
         wire' = IF ~is_connected \/ ioerr THEN wire ELSE Written(Poller(i), "query", <<>>)
    /\ UNCHANGED << serial, proto_connected, connected, port, lock, monitor_active,
                    monitor_thread, job_status, host, job,
                    orphan, call, status >>

\* `with self._lock: self._status = self.protocol.query_status()`: the
\* query is written and its reply read unless the session is disconnected or
\* the write fails; the lock is released and the thread sleeps.
PollerQuery(i) ==
    /\ poller[i] = "lock"
    /\ lock = Free
    /\ poller' = [poller EXCEPT ![i] = "loop"]
    /\ \E ioerr \in BOOLEAN :
         wire' = IF ~is_connected \/ ioerr THEN wire ELSE Written(Poller(i), "query", <<>>)
    /\ UNCHANGED << serial, proto_connected, connected, port, lock, monitor_active,
                    monitor_thread, job_status, host, job,
                    orphan, call, status >>

\* ------------------------------------------------------- the host thread
\* HTTPServer serves one request at a time: a request is a call of a
\* PrinterManager method, and the next one starts when it has returned.

\* What serial.Serial(...) and the two buffer resets of XYZProtocol.connect
\* do: the port opens and is ready, the port does not open, or the port
\* opens and a reset raises.
OpenOutcomes == {"opened", "refused", "broken"}

\* The outcomes the connects of Spec have.
ManagerOpens == {"opened", "refused"}

\* PrinterManager.connect: under the lock, an open session is closed, the
\* port opened, the status queried and the monitor started. When a reset
\* raises, the except clause drops the reference to the opened handle and
\* closes nothing: the handle stays open unless the interpreter finalizes
\* the object at once.
HostConnect(p, opens) ==
    /\ host.pc = "idle"
    /\ lock = Free
    /\ \E i \in PollerIds : poller[i] = "unused"
    /\ \E o \in opens, ioerr \in BOOLEAN, finalized \in BOOLEAN :
         IF o = "opened"
         THEN /\ finalized
              /\ serial' = "open"
              /\ proto_connected' = TRUE
              /\ connected' = TRUE
              /\ port' = p
              /\ wire' = IF ioerr THEN wire ELSE Written(Host, "query", <<>>)
              /\ monitor_active' = TRUE
              /\ monitor_thread' = NextPoller
              /\ poller' = [poller EXCEPT ![NextPoller] = "loop"]
              /\ UNCHANGED orphan
         ELSE /\ ioerr = FALSE
              /\ o = "refused" => finalized
              /\ serial' = "none"
              /\ proto_connected' = FALSE
              /\ orphan' = (orphan \/ ~finalized)
              /\ UNCHANGED << connected, port, wire, monitor_active, monitor_thread, poller >>
    /\ UNCHANGED << lock, job_status, host, job, call, status >>

\* XYZProtocol.disconnect
ProtocolClosed ==
    /\ serial' = "none"
    /\ proto_connected' = FALSE

\* The end of PrinterManager.disconnect, after _stop_monitor.
Disconnected ==
    /\ monitor_thread' = 0
    /\ IF connected
       THEN /\ ProtocolClosed
            /\ connected' = FALSE
            /\ port' = ""
       ELSE UNCHANGED << serial, proto_connected, connected, port >>
    /\ lock' = Free
    /\ host' = IdleHost

\* A disconnect request arrives: PrinterManager.disconnect is called and
\* waits at `with self._lock:`; `busy` tells whether an upload was in
\* progress at the call.
HostDisconnectCall ==
    /\ host.pc = "idle"
    /\ host' = [pc |-> "disc_lock", busy |-> WireOpen]
    /\ UNCHANGED << serial, proto_connected, connected, port, lock, monitor_active,
                    monitor_thread, job_status, poller, job, wire,
                    orphan, call, status >>

\* PrinterManager.disconnect from the lock up to _stop_monitor's join.
HostDisconnect ==
    /\ host.pc = "disc_lock"
    /\ lock = Free
    /\ monitor_active' = FALSE
    /\ IF monitor_thread # 0
       THEN /\ lock' = Host
            /\ host' = [pc |-> "join"]
            /\ UNCHANGED << serial, proto_connected, connected, port, monitor_thread >>
       ELSE Disconnected
    /\ UNCHANGED << job_status, poller, job, wire,
                    orphan, call, status >>

\* join() without a timeout: it returns when the poller has exited.
HostJoinForever ==
    /\ host.pc = "join"
    /\ poller[monitor_thread] = "exit"
    /\ Disconnected
    /\ UNCHANGED << monitor_active, job_status, poller, job, wire,
                    orphan, call, status >>

\* join(timeout=5) returns: the poller has exited, or it waits for the lock
\* this thread holds and the five seconds pass (a poller that sleeps wakes
\* within four and exits).
HostJoin ==
    /\ host.pc = "join"
    /\ poller[monitor_thread] \in {"exit", "lock"}
    /\ Disconnected
    /\ UNCHANGED << monitor_active, job_status, poller, job, wire,
                    orphan, call, status >>

\* A control request (home, pause, ...): the connected test before the lock
\* (a request on a disconnected manager returns at once and changes nothing).
HostCommand ==
    /\ host.pc = "idle"
    /\ connected
    /\ host' = [pc |-> "cmd_lock"]
    /\ UNCHANGED << serial, proto_connected, connected, port, lock, monitor_active,
                    monitor_thread, job_status, poller, job, wire,
                    orphan, call, status >>

\* `with self._lock: ok = self.protocol.home()`: the command is written and
\* its response read unless the session is disconnected or the write fails.
HostCommandSend ==
    /\ host.pc = "cmd_lock"
    /\ lock = Free
    /\ host' = IdleHost
    /\ \E ioerr \in BOOLEAN :
         wire' = IF ~is_connected \/ ioerr THEN wire ELSE Written(Host, "cmd", <<>>)
    /\ UNCHANGED << serial, proto_connected, connected, port, lock, monitor_active,
                    monitor_thread, job_status, poller, job,
                    orphan, call, status >>

\* slice_and_print and send_gcode_file: the two tests, then the thread, which
\* starts in _do_slice_and_print ("start_slice") or _do_send_gcode.
HostStartJob(kind) ==
    /\ host.pc = "idle"
    /\ \E j \in JobIds : job[j].pc = "unused"
    /\ IF ~connected
       THEN /\ host' = IdleHost
            /\ UNCHANGED job
       ELSE IF job_status.active
       THEN /\ host' = IdleHost
            /\ UNCHANGED job
       ELSE /\ host' = IdleHost
            /\ job' = [job EXCEPT ![NextJob].pc = kind]
    /\ UNCHANGED << serial, proto_connected, connected, port, lock, monitor_active,
                    monitor_thread, job_status, poller, wire,
                    orphan, call, status >>

\* ------------------------------------------------------------------ Spec

Init ==
    /\ serial = "none"
    /\ proto_connected = FALSE
    /\ connected = FALSE
    /\ port = ""
    /\ lock = Free
    /\ monitor_active = FALSE
    /\ monitor_thread = 0
    /\ job_status = IdleStatus
    /\ host = IdleHost
    /\ poller = [i \in PollerIds |-> "unused"]
    /\ job = [j \in JobIds |-> UnusedJob]
    /\ wire = <<>>
    /\ orphan = FALSE
    /\ call = NoCall
    /\ status = NoStatus

JobStep(j) ==
    \/ JobStart(j)
    \/ JobSlice(j)
    \/ JobConvert(j)
    \/ JobLock(j)
    \/ UploadInit(j, ManagerReplies)
    \/ UploadFrame(j, ManagerReplies)
    \/ UploadFinish(j, ManagerReplies)
    \/ JobResult(j)

PollerStep(i) ==
    \/ PollerLoop(i)
    \/ PollerQuery(i)

HostStep ==
    \/ \E p \in Ports : HostConnect(p, ManagerOpens)
    \/ HostDisconnectCall
    \/ HostDisconnect
    \/ HostJoin
    \/ HostCommand
    \/ HostCommandSend
    \/ \E kind \in {"start_slice", "start_gcode"} : HostStartJob(kind)

Next ==
    \/ HostStep
    \/ \E i \in PollerIds : PollerStep(i)
    \/ \E j \in JobIds : JobStep(j)

Spec == Init /\ [][Next]_vars

\* ---------------------------------------------------------------- SpecLive
\* Spec with the scheduling of the threads. A thread that can take a step
\* takes it: the serial calls, the slicer and the sleeps return within their
\* timeouts (weak fairness). A thread blocked at `with self._lock:` gets the
\* lock when it is free again and again (strong fairness): every holder
\* releases it and then sleeps, returns or exits. A request is an input and
\* nothing says that one arrives.
Scheduling ==
    /\ \A j \in JobIds :
         /\ WF_vars(JobStart(j) \/ JobSlice(j) \/ JobConvert(j) \/ JobResult(j))
         /\ WF_vars(UploadInit(j, ManagerReplies) \/ UploadFrame(j, ManagerReplies)
                    \/ UploadFinish(j, ManagerReplies))
         /\ SF_vars(JobLock(j))
    /\ \A i \in PollerIds :
         /\ WF_vars(PollerLoop(i))
         /\ SF_vars(PollerQuery(i))
    /\ SF_vars(HostDisconnect)
    /\ SF_vars(HostCommandSend)
    /\ WF_vars(HostJoin)

SpecLive == Spec /\ Scheduling

\* ------------------------------------------------------------ SpecUpload
\* One job thread of a connected manager, its poller asleep, has reached its
\* upload stage and holds the lock; the payload is any of UploadSizes bytes.

UploadSizes ==
    {0, 1, 5} \cup { k * BlockSize + d : k \in 1..MaxBlocks, d \in {-1, 0, 1} }

InitUpload ==
    /\ serial = "open"
    /\ proto_connected = TRUE
    /\ connected = TRUE
    /\ port \in Ports
    /\ lock = Job(1)
    /\ monitor_active = TRUE
    /\ monitor_thread = 1
    /\ job_status = [active |-> TRUE, stage |-> "uploading"]
    /\ host = IdleHost
    /\ poller = [i \in PollerIds |-> IF i = 1 THEN "loop" ELSE "unused"]
    /\ \E n \in UploadSizes :
         job = [j \in JobIds |-> IF j = 1 THEN [UnusedJob EXCEPT !.pc = "upload", !.size = n]
                                  ELSE UnusedJob]
    /\ wire = <<>>
    /\ orphan = FALSE
    /\ call = NoCall
    /\ status = NoStatus

NextUpload ==
    \/ UploadInit(1, Replies)
    \/ UploadFrame(1, Replies)
    \/ UploadFinish(1, Replies)
    \/ JobResult(1)

SpecUpload == InitUpload /\ [][NextUpload]_vars

\* -------------------------------------------------------------- SpecCall
\* The calls on the XYZProtocol object, each made by the thread that holds
\* the lock, on a session that is open or was closed by a failed reconnect
\* (the manager still has connected = True): the commands of the host, the
\* status query of a poller that is about to take the lock, and the upload
\* of a job thread that is about to take it.

\* _send_command writing before it tests is_connected.
WroteUntested(conn) == 1

\* The writes _send_command makes: it raises before the write when the
\* session is not connected.
Wrote(conn) == IF conn THEN 1 ELSE 0

\* _send_command(cmd) with reply r, and what its caller `op` returns: a
\* command its test of the response, or False from its except clause;
\* query_status whether a response was parsed (True) or the blank
\* XYZPrinterStatus returned from its except clause (False).
Called(op, ioerr, r) ==
    LET raised == ~is_connected \/ ioerr \/ r.fail
        text == IF raised THEN <<>> ELSE ResponseText(r)
    IN  [op |-> op,
         conn |-> is_connected,
         reply |-> IF ~is_connected \/ ioerr THEN ReplyNone ELSE r,
         wrote |-> Wrote(is_connected),
         raised |-> raised,
         text |-> text,
         result |-> IF raised THEN FALSE
                    ELSE IF op = "query_status" THEN TRUE
                    ELSE CommandTest(op, text)]

\* PrinterManager.home and the like on a manager with connected = True:
\* `with self._lock: ok = self.protocol.<command>()`.
Command(c, replies) ==
    /\ host.pc = "idle"
    /\ connected
    /\ lock = Free
    /\ \E ioerr \in BOOLEAN, r \in replies : call' = Called(c, ioerr, r)
    /\ wire' = IF ~is_connected THEN wire ELSE Written(Host, "cmd", <<>>)
    /\ UNCHANGED << serial, proto_connected, connected, port, lock, monitor_active,
                    monitor_thread, job_status, host, poller, job, orphan, status >>

\* `with self._lock: self._status = self.protocol.query_status()` of poller i.
Query(i, replies) ==
    /\ poller[i] = "lock"
    /\ lock = Free
    /\ poller' = [poller EXCEPT ![i] = "loop"]
    /\ \E ioerr \in BOOLEAN, r \in replies : call' = Called("query_status", ioerr, r)
    /\ wire' = IF ~is_connected THEN wire ELSE Written(Poller(i), "query", <<>>)
    /\ UNCHANGED << serial, proto_connected, connected, port, lock, monitor_active,
                    monitor_thread, job_status, host, job, orphan, status >>

CallSizes == {0, 1}

\* The reply the upload of SpecCall gets on an open session: none, which
\* ends it at its initiation line (SpecUpload has the other replies).
CallReplies == { ReplyNone }

InitCall ==
    /\ \E conn \in BOOLEAN :
         /\ serial = IF conn THEN "open" ELSE "none"
         /\ proto_connected = conn
    /\ connected = TRUE
    /\ port \in Ports
    /\ lock = Free
    /\ monitor_active = TRUE
    /\ monitor_thread = 1
    /\ job_status = [active |-> TRUE, stage |-> "uploading"]
    /\ host = IdleHost
    /\ poller = [i \in PollerIds |-> IF i = 1 THEN "lock" ELSE "unused"]
    /\ \E n \in CallSizes :
         job = [j \in JobIds |-> IF j = 1 THEN [UnusedJob EXCEPT !.pc = "lock", !.size = n]
                                  ELSE UnusedJob]
    /\ wire = <<>>
    /\ orphan = FALSE
    /\ call = NoCall
    /\ status = NoStatus

NextCall ==
    \/ \E c \in Commands : Command(c, CommandReplies)
    \/ Query(1, CommandReplies)
    \/ PollerLoop(1)
    \/ JobLock(1)
    \/ UploadInit(1, CallReplies)
    \/ JobResult(1)

SpecCall == InitCall /\ [][NextCall]_vars

\* ------------------------------------------------------------- SpecParse
\* query_status on the text _send_command returned: the reply is cut into
\* lines, each line into segments, and each segment sets the fields of its
\* key in a new XYZPrinterStatus.

\* Characters a generated reply has at most.
MaxLen == 4

\* Pieces a composed reply has at most.
MaxPieces == 3

Letters ==
    { "a", "b", "c", "d", "e", "f", "g", "h", "i", "j", "k", "l", "m", "n", "o", "p",
      "q", "r", "s", "t", "u", "v", "w", "x", "y", "z",
      "A", "B", "C", "D", "E", "F", "G", "H", "I", "J", "K", "L", "M", "N", "O", "P",
      "Q", "R", "S", "T", "U", "V", "W", "X", "Y", "Z" }

Digits == { "0", "1", "2", "3", "4", "5", "6", "7", "8", "9" }

DigitValue(c) ==
    CASE c = "0" -> 0 [] c = "1" -> 1 [] c = "2" -> 2 [] c = "3" -> 3 [] c = "4" -> 4
      [] c = "5" -> 5 [] c = "6" -> 6 [] c = "7" -> 7 [] c = "8" -> 8 [] c = "9" -> 9

\* A split of line on every dot.
IsAnyDot(line, i) == line[i] = "."

\* The pattern `\.(?=[a-zA-Z]:)` matches at position i of line.
IsSeparator(line, i) ==
    /\ line[i] = "."
    /\ i + 2 <= Len(line)
    /\ line[i + 1] \in Letters
    /\ line[i + 2] = ":"

\* re.split of line from position i on, the piece in progress begun at start.
RECURSIVE SplitFrom(_, _, _)
SplitFrom(line, start, i) ==
    IF i > Len(line) THEN << SubSeq(line, start, Len(line)) >>
    ELSE IF IsSeparator(line, i)
         THEN << SubSeq(line, start, i - 1) >> \o SplitFrom(line, i + 1, i + 1)
    ELSE SplitFrom(line, start, i + 1)

\* re.split(r'\.(?=[a-zA-Z]:)', line)
SplitSegments(line) == SplitFrom(line, 1, 1)

\* str.split(c) from position i on.
RECURSIVE SplitOnFrom(_, _, _, _)
SplitOnFrom(text, c, start, i) ==
    IF i > Len(text) THEN << SubSeq(text, start, Len(text)) >>
    ELSE IF text[i] = c
         THEN << SubSeq(text, start, i - 1) >> \o SplitOnFrom(text, c, i + 1, i + 1)
    ELSE SplitOnFrom(text, c, start, i + 1)

\* val.split(',')
SplitOn(text, c) == SplitOnFrom(text, c, 1, 1)

\* response.splitlines(), from position i on; the empty lines it yields are
\* skipped by the loop over the lines.
RECURSIVE SplitLinesFrom(_, _, _)
SplitLinesFrom(text, start, i) ==
    IF i > Len(text) THEN << SubSeq(text, start, Len(text)) >>
    ELSE IF text[i] \in {"\n", "\r"}
         THEN << SubSeq(text, start, i - 1) >> \o SplitLinesFrom(text, i + 1, i + 1)
    ELSE SplitLinesFrom(text, start, i + 1)

\* The segments of the lines of a reply in the order the loops visit them:
\* lines stripped, empty lines skipped, segments stripped.
RECURSIVE SegmentsOfLines(_)
SegmentsOfLines(lines) ==
    IF lines = <<>> THEN <<>>
    ELSE LET line == Strip(Head(lines))
             segs == SplitSegments(line)
         IN  (IF line = <<>> THEN <<>> ELSE [k \in 1..Len(segs) |-> Strip(segs[k])])
             \o SegmentsOfLines(Tail(lines))

Segments(response) == SegmentsOfLines(SplitLinesFrom(response, 1, 1))

\* The digits of an int() literal: text without sign, `_` between digits.
IntBody(text) ==
    LET t == Strip(text)
    IN  IF t # <<>> /\ t[1] \in {"+", "-"} THEN Tail(t) ELSE t

\* int(text) does not raise ValueError.
IsInt(text) ==
    LET b == IntBody(text)
    IN  /\ b # <<>>
        /\ \A i \in 1..Len(b) :
             \/ b[i] \in Digits
             \/ /\ b[i] = "_"
                /\ 1 < i
                /\ i < Len(b)
                /\ b[i - 1] \in Digits
                /\ b[i + 1] \in Digits

RECURSIVE DigitsValue(_, _)
DigitsValue(b, acc) ==
    IF b = <<>> THEN acc
    ELSE IF Head(b) = "_" THEN DigitsValue(Tail(b), acc)
    ELSE DigitsValue(Tail(b), 10 * acc + DigitValue(Head(b)))

\* int(text)
IntValue(text) ==
    LET t == Strip(text)
        v == DigitsValue(IntBody(text), 0)
    IN  IF t[1] = "-" THEN 0 - v ELSE v

PRINTER_DB ==
    { [number |-> <<"d", "v", "1", "M", "X", "0", "A", "0", "0", "0">>,
       name |-> "da Vinci miniMaker"],
      [number |-> <<"d", "v", "1", "M", "W", "0", "A", "0", "0", "0">>,
       name |-> "da Vinci mini w"],
      [number |-> <<"d", "v", "1", "M", "W", "0", "B", "0", "0", "0">>,
       name |-> "da Vinci mini wA"],
      [number |-> <<"d", "v", "1", "M", "W", "0", "C", "0", "0", "0">>,
       name |-> "da Vinci mini w+"],
      [number |-> <<"d", "v", "1", "N", "X", "0", "A", "0", "0", "0">>,
       name |-> "da Vinci nano"],
      [number |-> <<"d", "v", "1", "N", "W", "0", "A", "0", "0", "0">>,
       name |-> "da Vinci nano w"],
      [number |-> <<"d", "v", "1", "J", "P", "0", "A", "0", "0", "0">>,
       name |-> "da Vinci Jr. 1.0"],
      [number |-> <<"d", "v", "1", "J", "W", "0", "A", "0", "0", "0">>,
       name |-> "da Vinci Jr. 1.0W"],
      [number |-> <<"d", "v", "1", "J", "A", "0", "A", "0", "0", "0">>,
       name |-> "da Vinci Jr. 1.0A"],
      [number |-> <<"d", "v", "1", "J", "S", "0", "A", "0", "0", "0">>,
       name |-> "da Vinci Jr. 1.0 3in1"],
      [number |-> <<"d", "v", "1", "J", "O", "0", "A", "0", "0", "0">>,
       name |-> "da Vinci Jr. 1.0 3in1 (Open)"],
      [number |-> <<"d", "v", "1", "J", "P", "W", "A", "0", "0", "0">>,
       name |-> "da Vinci Jr. 1.0 Pro"],
      [number |-> <<"d", "v", "1", "J", "W", "W", "A", "0", "0", "0">>,
       name |-> "da Vinci Jr. 1.0W Pro"],
      [number |-> <<"d", "v", "2", "J", "X", "0", "A", "0", "0", "0">>,
       name |-> "da Vinci Jr. 2.0 Mix"],
      [number |-> <<"d", "v", "1", "P", "A", "0", "A", "0", "0", "0">>,
       name |-> "da Vinci 1.0 Pro"],
      [number |-> <<"d", "v", "1", "P", "S", "0", "A", "0", "0", "0">>,
       name |-> "da Vinci 1.0 Pro 3in1"],
      [number |-> <<"d", "v", "1", "S", "A", "0", "A", "0", "0", "0">>,
       name |-> "da Vinci 1.0 Super"] }

\* XYZPrinterStatus()
NewStatus ==
    [model_number |-> <<>>, machine_name |-> "", serial_number |-> <<>>,
     firmware_version |-> <<>>, state |-> 0, sub_state |-> 0, extruder_temp |-> 0,
     extruder_target |-> 0, bed_temp |-> 0, bed_target |-> 0, print_pct |-> 0,
     print_elapsed_min |-> 0, print_remaining_min |-> 0, error_code |-> 0,
     filament_remaining_mm |-> 0, z_offset |-> 0, auto_level |-> FALSE]

StatusFields == DOMAIN NewStatus

\* `status.f = int(text)` in a try block that is at r: nothing once an
\* exception was raised, ValueError if text is no integer.
SetInt(r, f, text) ==
    IF r.raised THEN r
    ELSE IF IsInt(text) THEN [r EXCEPT !.status[f] = IntValue(text)]
    ELSE [r EXCEPT !.raised = TRUE]

\* `status.f = value` in a try block that is at r.
Set(r, f, value) == IF r.raised THEN r ELSE [r EXCEPT !.status[f] = value]

\* The body of the try block for a segment with key and val.
TryBlock(st, key, val) ==
    LET r == [status |-> st, raised |-> FALSE]
        parts == SplitOn(val, ",")
        n == Len(parts)
    IN  CASE key = "j" ->
               LET r1 == SetInt(r, "state", parts[1])
               IN  IF n > 1 THEN SetInt(r1, "sub_state", parts[2]) ELSE r1
          [] key = "t" ->
               LET r1 == IF n >= 2 THEN SetInt(r, "extruder_temp", parts[2]) ELSE r
                   r2 == IF n >= 3 THEN SetInt(r1, "bed_temp", parts[3]) ELSE r1
               IN  IF n >= 4 THEN SetInt(r2, "extruder_target", parts[4]) ELSE r2
          [] key = "n" ->
               LET r1 == Set(r, "model_number", Strip(val))
               IN  IF \E p \in PRINTER_DB : p.number = Strip(val)
                   THEN Set(r1, "machine_name",
                            (CHOOSE p \in PRINTER_DB : p.number = Strip(val)).name)
                   ELSE r1
          [] key = "s" -> Set(r, "serial_number", Strip(val))
          [] key = "v" -> Set(r, "firmware_version", Strip(val))
          [] key = "e" -> SetInt(r, "error_code", val)
          [] key = "d" ->
               LET r1 == IF n >= 1 THEN SetInt(r, "print_pct", parts[1]) ELSE r
                   r2 == IF n >= 2 THEN SetInt(r1, "print_elapsed_min", parts[2]) ELSE r1
               IN  IF n >= 3 THEN SetInt(r2, "print_remaining_min", parts[3]) ELSE r2
          [] key = "f" -> SetInt(r, "filament_remaining_mm", parts[1])
          [] key = "o" -> SetInt(r, "z_offset", val)
          [] key = "l" -> Set(r, "auto_level", Strip(val) = <<"1">>)
          [] OTHER -> r

\* A parse error that throws the fields set so far away.
AfterTryReset(r) == IF r.raised THEN NewStatus ELSE r.status

\* `except (ValueError, IndexError)`: the error is logged and the loop goes
\* on with the status as the try block left it.
AfterTry(r) == r.status

\* One pass of the loop over the segments.
ParseSegment(st, seg) ==
    IF Len(seg) < 2 \/ seg[2] # ":" THEN st
    ELSE AfterTry(TryBlock(st, seg[1], SubSeq(seg, 3, Len(seg))))

\* The strings over alphabet of length n.
RECURSIVE Strings(_, _)
Strings(alphabet, n) ==
    IF n = 0 THEN { <<>> }
    ELSE { << c >> \o s : c \in alphabet, s \in Strings(alphabet, n - 1) }

StringsUpTo(alphabet, n) == UNION { Strings(alphabet, k) : k \in 0..n }

\* Firmware values made of digits and dots.
Firmwares == StringsUpTo({"1", "3", "."}, MaxLen) \cup { <<"1", ".", "3", ".", "5">> }

\* Segments of status replies: well formed ones, one with an unknown key,
\* ones whose value is no integer.
Pieces ==
    { <<"j", ":", "9", "0", "0", "2", ",", "0">>,
      <<"t", ":", "1", ",", "2", "0", "5", ",", "0", ",", "2", "1", "0">>,
      <<"v", ":", "1", ".", "3", ".", "5">>,
      <<"x", ":", "7">>,
      <<"j", ":", "9", "a">>,
      <<"j", ":", "5", ",", "x">>,
      <<"e", ":">>,
      <<"o", ":", "-", "1", "2">>,
      <<"l", ":", "1">>,
      <<"n", ":", "d", "v", "1", "M", "X", "0", "A", "0", "0", "0">>,
      <<"d", ":", "5", "0", ",", "1", "0", ",", "2", "0">>,
      <<"f", ":", "1", "0", "0", "0", ",", "0">>,
      <<"s", ":", "S", "N", "1">> }

\* Lines of up to n pieces, joined by dots.
RECURSIVE Composed(_)
Composed(n) ==
    IF n = 1 THEN Pieces
    ELSE Composed(n - 1) \cup { r \o <<".">> \o p : r \in Composed(n - 1), p \in Pieces }

\* The replies the parse is run on: every short string over the characters
\* of a `v` and a `j` segment, firmware values alone and before a `j`
\* segment, lines of pieces, and replies of two lines.
Responses ==
    StringsUpTo({"v", "j", ":", "1", ".", ","}, MaxLen)
    \cup { <<"v", ":">> \o f : f \in Firmwares }
    \cup { <<"v", ":">> \o f \o <<".", "j", ":", "9", "0", "0", "2", ",", "0">> : f \in Firmwares }
    \cup Composed(MaxPieces)
    \cup { a \o <<"\r", "\n">> \o b : a \in Composed(MaxPieces - 1), b \in Pieces }

\* query_status has the reply and makes its status object.
ParseStart ==
    /\ call.op = "reply"
    /\ call' = [op |-> "parse", response |-> call.response,
                segments |-> Segments(call.response), i |-> 1,
                status |-> NewStatus]
    /\ UNCHANGED << serial, proto_connected, connected, port, lock, monitor_active,
                    monitor_thread, job_status, host, poller, job, wire, orphan, status >>

\* The loop body on the next segment.
ParseNext ==
    /\ call.op = "parse"
    /\ call.i <= Len(call.segments)
    /\ call' = [call EXCEPT !.i = @ + 1,
                            !.status = ParseSegment(call.status, call.segments[call.i])]
    /\ UNCHANGED << serial, proto_connected, connected, port, lock, monitor_active,
                    monitor_thread, job_status, host, poller, job, wire, orphan, status >>

\* `return status`
ParseReturn ==
    /\ call.op = "parse"
    /\ call.i > Len(call.segments)
    /\ call' = [call EXCEPT !.op = "parsed"]
    /\ UNCHANGED << serial, proto_connected, connected, port, lock, monitor_active,
                    monitor_thread, job_status, host, poller, job, wire, orphan, status >>

InitParse ==
    /\ serial = "open"
    /\ proto_connected = TRUE
    /\ connected = TRUE
    /\ port \in Ports
    /\ lock = Poller(1)
    /\ monitor_active = TRUE
    /\ monitor_thread = 1
    /\ job_status = IdleStatus
    /\ host = IdleHost
    /\ poller = [i \in PollerIds |-> IF i = 1 THEN "query" ELSE "unused"]
    /\ job = [j \in JobIds |-> UnusedJob]
    /\ wire = <<>>
    /\ orphan = FALSE
    /\ call \in { [op |-> "reply", response |-> r] : r \in Responses }
    /\ status = NoStatus

NextParse == ParseStart \/ ParseNext \/ ParseReturn

SpecParse == InitParse /\ [][NextParse]_vars

\* ------------------------------------------------------------- SpecCodec
\* XYZFileConverter: convert_gcode_to_3w on a G-code text with the print
\* info of its caller, and decrypt_3w_to_gcode on the file it returns.
\* Text is a sequence of characters, a file a sequence of bytes. An integer
\* Python holds without bound is the text of its decimal digits.

\* Lines a G-code text has at most.
MaxLines == 2

\* ord() of the characters of one byte.
Ord ==
      "\t" :> 9 @@ "\n" :> 10 @@ "\r" :> 13 @@ " " :> 32 @@ "!" :> 33 @@ "#" :> 35 @@ "$" :> 36 @@
      "%" :> 37 @@ "&" :> 38 @@ "'" :> 39 @@ "(" :> 40 @@ ")" :> 41 @@ "*" :> 42 @@ "+" :> 43 @@
      "," :> 44 @@ "-" :> 45 @@ "." :> 46 @@ "/" :> 47 @@ "0" :> 48 @@ "1" :> 49 @@ "2" :> 50 @@
      "3" :> 51 @@ "4" :> 52 @@ "5" :> 53 @@ "6" :> 54 @@ "7" :> 55 @@ "8" :> 56 @@ "9" :> 57 @@
      ":" :> 58 @@ ";" :> 59 @@ "<" :> 60 @@ "=" :> 61 @@ ">" :> 62 @@ "?" :> 63 @@ "@" :> 64 @@
      "A" :> 65 @@ "B" :> 66 @@ "C" :> 67 @@ "D" :> 68 @@ "E" :> 69 @@ "F" :> 70 @@ "G" :> 71 @@
      "H" :> 72 @@ "I" :> 73 @@ "J" :> 74 @@ "K" :> 75 @@ "L" :> 76 @@ "M" :> 77 @@ "N" :> 78 @@
      "O" :> 79 @@ "P" :> 80 @@ "Q" :> 81 @@ "R" :> 82 @@ "S" :> 83 @@ "T" :> 84 @@ "U" :> 85 @@
      "V" :> 86 @@ "W" :> 87 @@ "X" :> 88 @@ "Y" :> 89 @@ "Z" :> 90 @@ "[" :> 91 @@ "]" :> 93 @@
      "^" :> 94 @@ "_" :> 95 @@ "a" :> 97 @@ "b" :> 98 @@ "c" :> 99 @@ "d" :> 100 @@ "e" :> 101 @@
      "f" :> 102 @@ "g" :> 103 @@ "h" :> 104 @@ "i" :> 105 @@ "j" :> 106 @@ "k" :> 107 @@ "l" :> 108 @@
      "m" :> 109 @@ "n" :> 110 @@ "o" :> 111 @@ "p" :> 112 @@ "q" :> 113 @@ "r" :> 114 @@ "s" :> 115 @@
      "t" :> 116 @@ "u" :> 117 @@ "v" :> 118 @@ "w" :> 119 @@ "x" :> 120 @@ "y" :> 121 @@ "z" :> 122 @@
      "{" :> 123 @@ "|" :> 124 @@ "}" :> 125 @@ "~" :> 126

AsciiChars == DOMAIN Ord

\* A character of two bytes in UTF-8.
EAcute == "e-acute"

\* The character bytes.decode(errors="replace") puts for a malformed byte.
Replacement == "U+FFFD"

\* str.encode("utf-8"): the bytes of each character, one after the other.
RECURSIVE Utf8Encode(_)
Utf8Encode(text) ==
    IF text = <<>> THEN <<>>
    ELSE IF Len(text) = 1
         THEN (IF text[1] = EAcute THEN <<195, 169>> ELSE << Ord[text[1]] >>)
    ELSE Utf8Encode(SubSeq(text, 1, Len(text) \div 2))
         \o Utf8Encode(SubSeq(text, Len(text) \div 2 + 1, Len(text)))

\* chr() of a byte below 128.
Chr == [b \in { Ord[c] : c \in AsciiChars } |-> CHOOSE c \in AsciiChars : Ord[c] = b]

\* No character: the place of the second byte of a character of two bytes.
Continued == "continued"

\* bytes.decode("utf-8", errors="replace") on the bytes of these characters:
\* 195 before 169 begins the character of two bytes, a byte of the table is
\* its character, any other byte is replaced.
Utf8Decode(data) ==
    LET at(i) ==
            IF data[i] = 195 /\ i < Len(data) /\ data[i + 1] = 169 THEN EAcute
            ELSE IF data[i] = 169 /\ i > 1 /\ data[i - 1] = 195 THEN Continued
            ELSE IF data[i] \in DOMAIN Chr THEN Chr[data[i]]
            ELSE Replacement
    IN  SelectSeq([i \in 1..Len(data) |-> at(i)], LAMBDA c : c # Continued)

ToLower ==
      "A" :> "a" @@ "B" :> "b" @@ "C" :> "c" @@ "D" :> "d" @@ "E" :> "e" @@ "F" :> "f" @@ "G" :> "g" @@
      "H" :> "h" @@ "I" :> "i" @@ "J" :> "j" @@ "K" :> "k" @@ "L" :> "l" @@ "M" :> "m" @@ "N" :> "n" @@
      "O" :> "o" @@ "P" :> "p" @@ "Q" :> "q" @@ "R" :> "r" @@ "S" :> "s" @@ "T" :> "t" @@ "U" :> "u" @@
      "V" :> "v" @@ "W" :> "w" @@ "X" :> "x" @@ "Y" :> "y" @@ "Z" :> "z"

\* str.lower()
LowerText(text) ==
    [i \in 1..Len(text) |-> IF text[i] \in DOMAIN ToLower THEN ToLower[text[i]] ELSE text[i]]

\* str.startswith(prefix)
StartsWith(text, prefix) ==
    Len(text) >= Len(prefix) /\ SubSeq(text, 1, Len(prefix)) = prefix

\* A line of text ends at position i: a `\n`, or a `\r` that no `\n` follows
\* (`\r\n` is one line end).
IsLineEnd(text, i) ==
    \/ text[i] = "\n"
    \/ text[i] = "\r" /\ ~(i < Len(text) /\ text[i + 1] = "\n")

\* The first line end of text from position i on, Len(text) + 1 if none.
RECURSIVE LineEndFrom(_, _)
LineEndFrom(text, i) ==
    IF i > Len(text) \/ IsLineEnd(text, i) THEN i ELSE LineEndFrom(text, i + 1)

\* The lines of text from position start on, without their ends.
RECURSIVE LinesFrom(_, _)
LinesFrom(text, start) ==
    IF start > Len(text) THEN <<>>
    ELSE LET end == LineEndFrom(text, start)
             last == IF end <= Len(text) /\ text[end] = "\n" /\ end > start
                        /\ text[end - 1] = "\r"
                     THEN end - 2 ELSE end - 1
         IN  << SubSeq(text, start, last) >> \o LinesFrom(text, end + 1)

\* str.splitlines(): a text that ends with a line end has no empty last line.
SplitLines(text) == LinesFrom(text, 1)

\* "\n".join(lines) + "\n"
RECURSIVE JoinLines(_)
JoinLines(lines) ==
    IF lines = <<>> THEN <<"\n">>
    ELSE IF Len(lines) = 1 THEN lines[1] \o <<"\n">>
    ELSE lines[1] \o <<"\n">> \o JoinLines(Tail(lines))

\* 10 * n + d for n held as bytes, low byte first.
RECURSIVE MulAdd(_, _)
MulAdd(bytes, d) ==
    IF bytes = <<>> THEN (IF d = 0 THEN <<>> ELSE << d >>)
    ELSE << (10 * Head(bytes) + d) % 256 >>
         \o MulAdd(Tail(bytes), (10 * Head(bytes) + d) \div 256)

\* The bytes of the number the digits stand for, low byte first.
RECURSIVE BytesOf(_, _)
BytesOf(digits, acc) ==
    IF digits = <<>> THEN acc
    ELSE BytesOf(Tail(digits), MulAdd(acc, DigitValue(Head(digits))))

\* struct.pack("<I", n) raises struct.error: n is not below 2^32.
PackRaises(digits) == Len(BytesOf(digits, <<>>)) > 4

\* struct.pack("<I", n) for n given by its digits.
PackDigits(digits) ==
    LET b == BytesOf(digits, <<>>)
    IN  [k \in 1..4 |-> IF k <= Len(b) THEN b[k] ELSE 0]

\* struct.pack("<I", n) for a size.
PackSize(n) ==
    << n % 256, (n \div 256) % 256, (n \div 65536) % 256, (n \div 16777216) % 256 >>

\* struct.unpack_from("<I", data, offset)[0]
UnpackAt(data, offset) ==
    data[offset + 1] + data[offset + 2] * 256 + data[offset + 3] * 65536
        + data[offset + 4] * 16777216

\* _ECB_MODELS
ECB_MODELS ==
    { <<"d", "v", "1", "M", "X", "0", "A", "0", "0", "0">>,
      <<"d", "v", "1", "M", "W", "0", "A", "0", "0", "0">>,
      <<"d", "v", "1", "M", "W", "0", "B", "0", "0", "0">>,
      <<"d", "v", "1", "M", "W", "0", "C", "0", "0", "0">>,
      <<"d", "v", "1", "N", "X", "0", "A", "0", "0", "0">>,
      <<"d", "v", "1", "N", "W", "0", "A", "0", "0", "0">> }

\* The model identifiers of the catalog.
Models == { p.number : p \in PRINTER_DB }

use_ecb(model_number) == model_number \in ECB_MODELS

HEADER_SIZE == 8192

\* A filament length as `:.1f` prints it.
FilamentText(filament_mm) == filament_mm.whole \o <<".">> \o << filament_mm.tenth >>

\* Comment lines whose first names the model under another key.
HeaderCommentsOtherKey(model_number, print_time_sec, filament_mm) ==
    << <<";", " ", "m", "o", "d", "e", "l", " ", "=", " ">> \o model_number,
       <<";", " ", "p", "r", "i", "n", "t", "_", "t", "i", "m", "e", " ", "=", " ">> \o print_time_sec,
       <<";", " ", "t", "o", "t", "a", "l", "_", "f", "i", "l", "a", "m", "e", "n", "t", " ", "=", " ">> \o FilamentText(filament_mm),
       <<";", " ", "n", "o", "z", "z", "l", "e", "_", "d", "i", "a", "m", "e", "t", "e", "r", " ", "=", " ", "0", ".", "4">>,
       <<";", " ", "l", "a", "y", "e", "r", "_", "h", "e", "i", "g", "h", "t", " ", "=", " ", "0", ".", "2">>,
       <<";", " ", "f", "i", "l", "a", "m", "e", "n", "t", "_", "d", "i", "a", "m", "e", "t", "e", "r", " ", "=", " ", "1", ".", "7", "5">>,
       <<";", " ", "f", "i", "l", "a", "m", "e", "n", "t", "_", "t", "y", "p", "e", " ", "=", " ", "P", "L", "A">>,
       <<>> >>

\* The seven comment lines and the blank line _preprocess_gcode puts first.
HeaderComments(model_number, print_time_sec, filament_mm) ==
    << <<";", " ", "m", "a", "c", "h", "i", "n", "e", " ", "=", " ">> \o model_number,
       <<";", " ", "p", "r", "i", "n", "t", "_", "t", "i", "m", "e", " ", "=", " ">> \o print_time_sec,
       <<";", " ", "t", "o", "t", "a", "l", "_", "f", "i", "l", "a", "m", "e", "n", "t", " ", "=", " ">> \o FilamentText(filament_mm),
       <<";", " ", "n", "o", "z", "z", "l", "e", "_", "d", "i", "a", "m", "e", "t", "e", "r", " ", "=", " ", "0", ".", "4">>,
       <<";", " ", "l", "a", "y", "e", "r", "_", "h", "e", "i", "g", "h", "t", " ", "=", " ", "0", ".", "2">>,
       <<";", " ", "f", "i", "l", "a", "m", "e", "n", "t", "_", "d", "i", "a", "m", "e", "t", "e", "r", " ", "=", " ", "1", ".", "7", "5">>,
       <<";", " ", "f", "i", "l", "a", "m", "e", "n", "t", "_", "t", "y", "p", "e", " ", "=", " ", "P", "L", "A">>,
       <<>> >>

\* One line of the loop of _preprocess_gcode: stripped, a leading G0 made G1.
ConvertLine(line) ==
    LET stripped == Strip(line)
    IN  IF StartsWith(stripped, <<"G", "0", " ">>) \/ StartsWith(stripped, <<"G", "0", "\t">>)
        THEN <<"G", "1">> \o SubSeq(stripped, 3, Len(stripped))
        ELSE IF stripped = <<"G", "0">> THEN <<"G", "1">>
        ELSE stripped

\* _preprocess_gcode with a scan of all the lines for `; machine`.
PreprocessScanAll(model_number, gcode, print_time_sec, filament_mm) ==
    LET lines == SplitLines(gcode)
        has_machine ==
            \E k \in 1..Len(lines) :
                Contains(LowerText(lines[k]), <<";", " ", "m", "a", "c", "h", "i", "n", "e">>)
        head == IF has_machine THEN <<>>
                ELSE HeaderComments(model_number, print_time_sec, filament_mm)
    IN  JoinLines(head \o [k \in 1..Len(lines) |-> ConvertLine(lines[k])])

\* _preprocess_gcode
Preprocess(model_number, gcode, print_time_sec, filament_mm) ==
    LET lines == SplitLines(gcode)
        has_machine ==
            \E k \in 1..Min(50, Len(lines)) :
                Contains(LowerText(lines[k]), <<";", " ", "m", "a", "c", "h", "i", "n", "e">>)
        head == IF has_machine THEN <<>>
                ELSE HeaderComments(model_number, print_time_sec, filament_mm)
    IN  JoinLines(head \o [k \in 1..Len(lines) |-> ConvertLine(lines[k])])

\* _pkcs7_pad(data, 16)
Pkcs7Pad(data) ==
    LET padding_len == 16 - (Len(data) % 16)
    IN  data \o [k \in 1..padding_len |-> padding_len]

\* _AES_KEY_BASE
AES_KEY_BASE == << 64, 120, 121, 122, 112, 114, 105, 110, 116, 105, 110, 103, 46, 99, 111, 109 >>

\* _AES_KEY_256
AES_KEY_256 == AES_KEY_BASE \o AES_KEY_BASE

\* The byte of a key that goes into position k of a block.
KeyByte(key, k) == IF Len(key) = 32 THEN (key[k] + 3 * key[k + 16]) % 256 ELSE key[k]

\* AES on one block of 16 bytes stands as a keyed one-to-one map of blocks:
\* the block reversed, the key added byte by byte.
EncryptBlock(key, block) == [k \in 1..16 |-> (block[17 - k] + KeyByte(key, k)) % 256]

DecryptBlock(key, block) ==
    [k \in 1..16 |-> (block[17 - k] + 256 - KeyByte(key, 17 - k)) % 256]

\* a ^ b on bytes
RECURSIVE Xor(_, _)
Xor(a, b) ==
    IF a = 0 /\ b = 0 THEN 0
    ELSE ((a + b) % 2) + 2 * Xor(a \div 2, b \div 2)

XorBlock(a, b) == [k \in 1..16 |-> Xor(a[k], b[k])]

Block(data, n) == SubSeq(data, 16 * n - 15, 16 * n)

\* AES.new(key, AES.MODE_ECB).encrypt(data), data a whole number of blocks.
RECURSIVE EcbEncrypt(_, _)
EcbEncrypt(key, data) ==
    IF data = <<>> THEN <<>>
    ELSE EncryptBlock(key, Block(data, 1)) \o EcbEncrypt(key, SubSeq(data, 17, Len(data)))

RECURSIVE EcbDecrypt(_, _)
EcbDecrypt(key, data) ==
    IF data = <<>> THEN <<>>
    ELSE DecryptBlock(key, Block(data, 1)) \o EcbDecrypt(key, SubSeq(data, 17, Len(data)))

\* AES.new(key, AES.MODE_CBC, iv).encrypt(data) from a block on, prev the
\* cipher block before it.
RECURSIVE CbcEncrypt(_, _, _)
CbcEncrypt(key, prev, data) ==
    IF data = <<>> THEN <<>>
    ELSE LET c == EncryptBlock(key, XorBlock(Block(data, 1), prev))
         IN  c \o CbcEncrypt(key, c, SubSeq(data, 17, Len(data)))

RECURSIVE CbcDecrypt(_, _, _)
CbcDecrypt(key, prev, data) ==
    IF data = <<>> THEN <<>>
    ELSE XorBlock(DecryptBlock(key, Block(data, 1)), prev)
         \o CbcDecrypt(key, Block(data, 1), SubSeq(data, 17, Len(data)))

\* _AES_IV
AES_IV == [k \in 1..16 |-> 0]

\* The signatures of a zip archive: local file header, end of central directory.
ZipLocal == << 80, 75, 3, 4 >>

ZipEnd == << 80, 75, 5, 6 >>

\* "model.gcode"
ZipName == << 109, 111, 100, 101, 108, 46, 103, 99, 111, 100, 101 >>

\* The archive zf.writestr("model.gcode", data) leaves: the entry after its
\* local header and name, then the end record. Deflate is not modelled, the
\* entry holds data as it is.
Zip(data) == ZipLocal \o ZipName \o data \o ZipEnd

\* The last place of data where the end record begins, 0 if there is none.
ZipEndAt(data) ==
    LET at == { p \in 1..(Len(data) - 3) : SubSeq(data, p, p + 3) = ZipEnd }
    IN  IF at = {} THEN 0 ELSE CHOOSE p \in at : \A q \in at : q <= p

\* zipfile.ZipFile(data) does not raise BadZipFile.
IsZip(data) ==
    /\ ZipEndAt(data) > Len(ZipLocal) + Len(ZipName)
    /\ StartsWith(data, ZipLocal \o ZipName)

\* zf.read(zf.namelist()[0])
Unzip(data) == SubSeq(data, Len(ZipLocal) + Len(ZipName) + 1, ZipEndAt(data) - 1)

\* _encrypt_ecb
encrypt_ecb(data) == EcbEncrypt(AES_KEY_256, Pkcs7Pad(data))

\* _encrypt_cbc_zip
encrypt_cbc_zip(data) == CbcEncrypt(AES_KEY_BASE, AES_IV, Pkcs7Pad(Zip(data)))

\* The magic of a .3w file.
Magic == << 51, 68, 80, 70, 78, 75, 71, 48, 48, 48, 48, 48, 48, 48, 48, 0 >>

\* Header fields with the two sizes in each other's place.
HeaderFieldsSwapped(model_number, body_size, encrypted_size, print_time_sec, filament_mm) ==
    << [at |-> 0, bytes |-> Magic],
       [at |-> 16, bytes |-> PackSize(2)],
       [at |-> 32, bytes |-> Utf8Encode(SubSeq(model_number, 1, Min(32, Len(model_number))))],
       [at |-> 80, bytes |-> PackSize(HEADER_SIZE)],
       [at |-> 84, bytes |-> PackSize(body_size)],
       [at |-> 88, bytes |-> PackSize(encrypted_size)],
       [at |-> 96, bytes |-> PackDigits(print_time_sec)],
       [at |-> 100, bytes |-> PackDigits(filament_mm.whole)],
       [at |-> 104, bytes |-> PackSize(IF use_ecb(model_number) THEN 2 ELSE 1)] >>

\* The fields _build_header writes, by offset.
HeaderFields(model_number, body_size, encrypted_size, print_time_sec, filament_mm) ==
    << [at |-> 0, bytes |-> Magic],
       [at |-> 16, bytes |-> PackSize(2)],
       [at |-> 32, bytes |-> Utf8Encode(SubSeq(model_number, 1, Min(32, Len(model_number))))],
       [at |-> 80, bytes |-> PackSize(HEADER_SIZE)],
       [at |-> 84, bytes |-> PackSize(encrypted_size)],
       [at |-> 88, bytes |-> PackSize(body_size)],
       [at |-> 96, bytes |-> PackDigits(print_time_sec)],
       [at |-> 100, bytes |-> PackDigits(filament_mm.whole)],
       [at |-> 104, bytes |-> PackSize(IF use_ecb(model_number) THEN 2 ELSE 1)] >>

\* _build_header raises struct.error.
HeaderRaises(print_time_sec, filament_mm) ==
    PackRaises(print_time_sec) \/ PackRaises(filament_mm.whole)

Zeros(n) == [k \in 1..n |-> 0]

\* The header up to the end of field f: zero bytes wherever no field is. The
\* fields are written in the order of their offsets and none reaches the next.
RECURSIVE HeaderUpTo(_, _)
HeaderUpTo(fields, f) ==
    IF f = 0 THEN <<>>
    ELSE LET before == HeaderUpTo(fields, f - 1)
         IN  before \o Zeros(fields[f].at - Len(before)) \o fields[f].bytes

\* _build_header: HEADER_SIZE zero bytes with the fields written over them.
build_header(model_number, body_size, encrypted_size, print_time_sec, filament_mm) ==
    LET fields == HeaderFields(model_number, body_size, encrypted_size,
                               print_time_sec, filament_mm)
        written == HeaderUpTo(fields, Len(fields))
    IN  written \o Zeros(HEADER_SIZE - Len(written))

\* convert_gcode_to_3w: the file, or raised when _build_header raises.
convert_gcode_to_3w(model_number, gcode, print_time_sec, filament_mm) ==
    LET processed == Preprocess(model_number, gcode, print_time_sec, filament_mm)
        body_bytes == Utf8Encode(processed)
        encrypted == IF use_ecb(model_number) THEN encrypt_ecb(body_bytes)
                     ELSE encrypt_cbc_zip(body_bytes)
    IN  IF HeaderRaises(print_time_sec, filament_mm)
        THEN [raised |-> TRUE, file |-> <<>>]
        ELSE [raised |-> FALSE,
              file |-> build_header(model_number, Len(body_bytes), Len(encrypted),
                                    print_time_sec, filament_mm) \o encrypted]

\* The end of decrypt_3w_to_gcode: padding removed if the last byte is 1..16
\* and that many last bytes equal it.
Unpad(decrypted) ==
    IF decrypted = <<>> THEN decrypted
    ELSE LET pad_len == decrypted[Len(decrypted)]
         IN  IF /\ 0 < pad_len
                /\ pad_len <= 16
                /\ \A k \in Max(1, Len(decrypted) - pad_len + 1)..Len(decrypted) :
                      decrypted[k] = pad_len
             THEN SubSeq(decrypted, 1, Len(decrypted) - pad_len)
             ELSE decrypted

\* decrypt_3w_to_gcode on a file of at least 8192 bytes.
decrypt_3w_to_gcode(three_w_data) ==
    LET body_offset == UnpackAt(three_w_data, 80)
        encrypted_size == UnpackAt(three_w_data, 84)
        original_size == UnpackAt(three_w_data, 88)
        enc_type == UnpackAt(three_w_data, 104)
        encrypted == Slice(three_w_data, body_offset, body_offset + encrypted_size)
        plain == IF enc_type = 2 THEN EcbDecrypt(AES_KEY_256, encrypted)
                 ELSE IF enc_type = 1
                      THEN LET d == CbcDecrypt(AES_KEY_BASE, AES_IV, encrypted)
                           IN  IF IsZip(d) THEN Unzip(d) ELSE d
                 ELSE encrypted
        unpadded == Unpad(plain)
        trimmed == IF original_size > 0
                   THEN SubSeq(unpadded, 1, Min(original_size, Len(unpadded)))
                   ELSE unpadded
    IN  Utf8Decode(trimmed)

\* Lines of G-code texts: moves with G0 before a blank, and alone between
\* blanks and before `\r\n`; a move with G1; a `; machine` comment; a comment
\* with a character of two bytes.
GcodeLines ==
    { <<"G", "0", " ", "X", "1">>,
      <<" ", "G", "0", "\r">>,
      <<"G", "1", " ", "Z", "0", ".", "2">>,
      <<";", " ", "M", "a", "c", "h", "i", "n", "e", " ", "=", " ", "x">>,
      <<";", EAcute>> }

\* A move and nine empty lines: the preprocessed text ends with ten `\n`.
TenNewlines == <<"G", "1", " ", "Z", "0", ".", "2">> \o [k \in 1..10 |-> "\n"]

\* Texts of up to n lines, each with its `\n`.
RECURSIVE Gcodes(_)
Gcodes(n) ==
    IF n = 0 THEN { <<>> }
    ELSE Gcodes(n - 1) \cup { g \o l \o <<"\n">> : g \in Gcodes(n - 1), l \in GcodeLines }

\* Print times extract_print_info returns: `int(m.group(1))` for the digits
\* of a `;TIME:` comment.
PrintTimes ==
    { <<"3", "6", "0", "0">>,
      <<"4", "2", "9", "4", "9", "6", "7", "2", "9", "5">>,
      <<"4", "2", "9", "4", "9", "6", "7", "2", "9", "6">> }

\* Filament lengths: 1234.7.
Filaments ==
    { [whole |-> <<"1", "2", "3", "4">>, tenth |-> "7"] }

\* converter.convert_gcode_to_3w(gcode, info["print_time_sec"], info["filament_mm"])
Encode ==
    /\ call.op = "gcode"
    /\ call' = [op |-> "encoded", model_number |-> call.model_number, gcode |-> call.gcode,
                print_time_sec |-> call.print_time_sec, filament_mm |-> call.filament_mm,
                out |-> convert_gcode_to_3w(call.model_number, call.gcode,
                                            call.print_time_sec, call.filament_mm)]
    /\ UNCHANGED << serial, proto_connected, connected, port, lock, monitor_active,
                    monitor_thread, job_status, host, poller, job, wire, orphan, status >>

\* XYZFileConverter.decrypt_3w_to_gcode(three_w_bytes)
Decode ==
    /\ call.op = "encoded"
    /\ ~call.out.raised
    /\ call' = [op |-> "decoded", model_number |-> call.model_number, gcode |-> call.gcode,
                print_time_sec |-> call.print_time_sec, filament_mm |-> call.filament_mm,
                out |-> call.out, text |-> decrypt_3w_to_gcode(call.out.file)]
    /\ UNCHANGED << serial, proto_connected, connected, port, lock, monitor_active,
                    monitor_thread, job_status, host, poller, job, wire, orphan, status >>

InitCodec ==
    /\ serial = "none"
    /\ proto_connected = FALSE
    /\ connected = FALSE
    /\ port = ""
    /\ lock = Free
    /\ monitor_active = FALSE
    /\ monitor_thread = 0
    /\ job_status = IdleStatus
    /\ host = IdleHost
    /\ poller = [i \in PollerIds |-> "unused"]
    /\ job = [j \in JobIds |-> UnusedJob]
    /\ wire = <<>>
    /\ orphan = FALSE
    /\ call \in { [op |-> "gcode", model_number |-> m, gcode |-> g,
                   print_time_sec |-> t, filament_mm |-> f] :
                  m \in Models, g \in Gcodes(MaxLines) \cup {TenNewlines},
                  t \in PrintTimes, f \in Filaments }
    /\ status = NoStatus

NextCodec == Encode \/ Decode

SpecCodec == InitCodec /\ [][NextCodec]_vars

\* --------------------------------------------------------------- SpecPre
\* _preprocess_gcode on a G-code text, and once more on its own result.

\* Lines of G-code texts: G0 before a blank, alone, before a tab and before
\* an axis word; a move with G1; a `; machine` comment in capitals.
PreLines ==
    { <<"G", "0", " ", "X", "1", "0", " ", "Y", "2", "0">>,
      <<"G", "1", " ", "Z", "0", ".", "2">>,
      <<"G", "0">>,
      <<"G", "0", "\t", "Y", "2", " ">>,
      <<"G", "0", "X", "1">>,
      <<";", " ", "M", "A", "C", "H", "I", "N", "E", " ", "=", " ", "x">> }

\* Texts of up to n lines, each with its `\n`.
RECURSIVE PreTexts(_)
PreTexts(n) ==
    IF n = 0 THEN { <<>> }
    ELSE PreTexts(n - 1) \cup { g \o l \o <<"\n">> : g \in PreTexts(n - 1), l \in PreLines }

\* n empty lines.
EmptyLines(n) == [k \in 1..n |-> "\n"]

\* The texts _preprocess_gcode is run on: short texts, the same after 49 and
\* after 50 empty lines, which puts their first line at the end of and
\* behind the 50 lines that are scanned, and lines that no `\n` ends.
PreInputs ==
    { EmptyLines(k) \o g : k \in {0, 49, 50}, g \in PreTexts(MaxLines) } \cup PreLines

\* One model of each cipher class.
PreModels ==
    { <<"d", "v", "1", "M", "X", "0", "A", "0", "0", "0">>,
      <<"d", "v", "1", "J", "P", "0", "A", "0", "0", "0">> }

\* processed = converter._preprocess_gcode(gcode, print_time_sec, filament_mm)
PreprocessOnce ==
    /\ call.op = "text"
    /\ call' = [op |-> "processed", model_number |-> call.model_number, gcode |-> call.gcode,
                print_time_sec |-> call.print_time_sec, filament_mm |-> call.filament_mm,
                once |-> Preprocess(call.model_number, call.gcode,
                                    call.print_time_sec, call.filament_mm)]
    /\ UNCHANGED << serial, proto_connected, connected, port, lock, monitor_active,
                    monitor_thread, job_status, host, poller, job, wire, orphan, status >>

\* converter._preprocess_gcode(processed, print_time_sec, filament_mm)
PreprocessTwice ==
    /\ call.op = "processed"
    /\ call' = [op |-> "reprocessed", model_number |-> call.model_number, gcode |-> call.gcode,
                print_time_sec |-> call.print_time_sec, filament_mm |-> call.filament_mm,
                once |-> call.once,
                twice |-> Preprocess(call.model_number, call.once,
                                     call.print_time_sec, call.filament_mm)]
    /\ UNCHANGED << serial, proto_connected, connected, port, lock, monitor_active,
                    monitor_thread, job_status, host, poller, job, wire, orphan, status >>

InitPre ==
    /\ serial = "none"
    /\ proto_connected = FALSE
    /\ connected = FALSE
    /\ port = ""
    /\ lock = Free
    /\ monitor_active = FALSE
    /\ monitor_thread = 0
    /\ job_status = IdleStatus
    /\ host = IdleHost
    /\ poller = [i \in PollerIds |-> "unused"]
    /\ job = [j \in JobIds |-> UnusedJob]
    /\ wire = <<>>
    /\ orphan = FALSE
    /\ call \in { [op |-> "text", model_number |-> m, gcode |-> g,
                   print_time_sec |-> <<"3", "6", "0", "0">>,
                   filament_mm |-> [whole |-> <<"1", "2", "3", "4">>, tenth |-> "7"]] :
                  m \in PreModels, g \in PreInputs }
    /\ status = NoStatus

NextPre == PreprocessOnce \/ PreprocessTwice

SpecPre == InitPre /\ [][NextPre]_vars

\* ----------------------------------------------------------- SpecExtract
\* XYZFileConverter.extract_print_info as a function of the G-code text. The
\* regular expressions are modelled by what they match; a float is modelled
\* by its value in thousandths, which is exact for the texts below (at most
\* three decimals, and none that binary floating point cannot hold).

\* `\s*` from position i: the first position from i on that holds no white
\* space.
RECURSIVE SkipSpace(_, _)
SkipSpace(line, i) ==
    IF i <= Len(line) /\ line[i] \in Whitespace THEN SkipSpace(line, i + 1) ELSE i

\* `\d+`, `[\d.]+`, `[_\s]*` from position i: the first position from i on
\* that holds no character of set.
RECURSIVE RunEnd(_, _, _)
RunEnd(line, i, set) ==
    IF i <= Len(line) /\ line[i] \in set THEN RunEnd(line, i + 1, set) ELSE i

\* A literal word at position i under re.IGNORECASE: the position behind it,
\* 0 if it is not there (or i is 0: nothing matched so far).
Word(line, i, word) ==
    IF /\ i > 0
       /\ i + Len(word) - 1 <= Len(line)
       /\ LowerText(SubSeq(line, i, i + Len(word) - 1)) = word
    THEN i + Len(word) ELSE 0

\* `;\s*` at the start of the line: the position behind it, 0 if no match.
Comment(line) ==
    IF line # <<>> /\ line[1] = ";" THEN SkipSpace(line, 2) ELSE 0

\* `\s*[:=]\s*` from position i: the position behind it, 0 if no match.
Assign(line, i) ==
    IF i = 0 THEN 0
    ELSE LET j == SkipSpace(line, i)
         IN  IF j <= Len(line) /\ line[j] \in {":", "="}
             THEN SkipSpace(line, j + 1) ELSE 0

\* A run of characters of set at position i: its text, <<>> if none (i = 0
\* included).
Run(line, i, set) ==
    IF i = 0 THEN <<>> ELSE SubSeq(line, i, RunEnd(line, i, set) - 1)

\* The first position from i on that holds c, 0 if none.
FirstOf(line, i, c) ==
    LET at == { p \in i..Len(line) : line[p] = c }
    IN  IF at = {} THEN 0 ELSE CHOOSE p \in at : \A q \in at : p <= q

\* re.match(r';\s*TIME\s*[:=]\s*(\d+)', line, re.IGNORECASE): group 1, <<>>
\* if no match.
TimeHint(line) ==
    Run(line, Assign(line, Word(line, Comment(line), <<"t", "i", "m", "e">>)), Digits)

\* re.match(r';\s*estimated printing time.*?=\s*(.*)', line, re.IGNORECASE):
\* the position where group 1 starts, 0 if no match.
EstimatedHint(line) ==
    LET after == Word(line, Comment(line), <<"e", "s", "t", "i", "m", "a", "t", "e", "d", " ", "p", "r", "i", "n", "t", "i", "n", "g", " ", "t", "i", "m", "e">>)
        equals == IF after = 0 THEN 0 ELSE FirstOf(line, after, "=")
    IN  IF equals = 0 THEN 0 ELSE SkipSpace(line, equals + 1)

\* re.search(r'(\d+)\s*<unit>', time_str): int(group 1), 0 if no match.
Amount(time_str, unit) ==
    LET at == { p \in 1..Len(time_str) :
                  /\ time_str[p] \in Digits
                  /\ LET j == SkipSpace(time_str, RunEnd(time_str, p, Digits))
                     IN  j <= Len(time_str) /\ time_str[j] = unit }
    IN  IF at = {} THEN 0
        ELSE LET p == CHOOSE p \in at : \A q \in at : p <= q
             IN  DigitsValue(Run(time_str, p, Digits), 0)

\* The seconds of `1h 23m 45s`.
EstimatedTime(line) ==
    LET time_str == SubSeq(line, EstimatedHint(line), Len(line))
    IN  Amount(time_str, "h") * 3600 + Amount(time_str, "m") * 60 + Amount(time_str, "s")

\* re.match(r';\s*(?:Filament\s*used|MATERIAL)\s*[:=]\s*([\d.]+)\s*(mm|m)?',
\* line, re.IGNORECASE): the position where group 1 starts, 0 if no match.
FilamentHint(line) ==
    LET start == Comment(line)
        filament == Word(line, start, <<"f", "i", "l", "a", "m", "e", "n", "t">>)
        used == IF filament = 0 THEN 0
                ELSE Word(line, SkipSpace(line, filament), <<"u", "s", "e", "d">>)
        key == IF used # 0 THEN used ELSE Word(line, start, <<"m", "a", "t", "e", "r", "i", "a", "l">>)
        value == Assign(line, key)
    IN  IF Run(line, value, Digits \cup {"."}) = <<>> THEN 0 ELSE value

\* Group 2 of the filament match, "mm" when it is absent.
FilamentUnit(line) ==
    LET j == SkipSpace(line, RunEnd(line, FilamentHint(line), Digits \cup {"."}))
    IN  IF Word(line, j, <<"m", "m">>) # 0 THEN "mm"
        ELSE IF Word(line, j, <<"m">>) # 0 THEN "m"
        ELSE "mm"

\* float(text) raises ValueError for a text of digits and dots: more than one
\* dot, or no digit.
FloatRaises(text) ==
    \/ Cardinality({ p \in 1..Len(text) : text[p] = "." }) > 1
    \/ \A p \in 1..Len(text) : text[p] = "."

\* float(text) in thousandths, for a text float() accepts.
FloatMilli(text) ==
    LET dot == FirstOf(text, 1, ".")
        whole == IF dot = 0 THEN text ELSE SubSeq(text, 1, dot - 1)
        decimals == IF dot = 0 THEN <<>> ELSE SubSeq(text, dot + 1, Len(text))
    IN  DigitsValue(whole, 0) * 1000
            + DigitsValue(SubSeq(decimals \o <<"0", "0", "0">>, 1, 3), 0)

\* re.match(r';\s*LAYER[_\s]*COUNT\s*[:=]\s*(\d+)', line, re.IGNORECASE):
\* group 1, <<>> if no match.
LayerCountHint(line) ==
    LET layer == Word(line, Comment(line), <<"l", "a", "y", "e", "r">>)
        count == IF layer = 0 THEN 0
                 ELSE Word(line, RunEnd(line, layer, Whitespace \cup {"_"}), <<"c", "o", "u", "n", "t">>)
    IN  Run(line, Assign(line, count), Digits)

\* re.match(r';\s*LAYER\s*[:=]\s*\d+', line, re.IGNORECASE)
LayerHint(line) ==
    Run(line, Assign(line, Word(line, Comment(line), <<"l", "a", "y", "e", "r">>)), Digits) # <<>>

\* One round of `for line in gcode.splitlines()`: the first expression that
\* matches the stripped line decides, and float() of a filament value it
\* does not accept ends the call with ValueError.
ScanLine(info, line) ==
    LET line_stripped == Strip(line)
        value == Run(line_stripped, FilamentHint(line_stripped), Digits \cup {"."})
    IN  IF info.raised THEN info
        ELSE IF TimeHint(line_stripped) # <<>>
        THEN [info EXCEPT !.print_time_sec = DigitsValue(TimeHint(line_stripped), 0)]
        ELSE IF EstimatedHint(line_stripped) # 0
        THEN [info EXCEPT !.print_time_sec = EstimatedTime(line_stripped)]
        ELSE IF FilamentHint(line_stripped) # 0
        THEN IF FloatRaises(value) THEN [info EXCEPT !.raised = TRUE]
             ELSE IF FilamentUnit(line_stripped) = "m"
             THEN [info EXCEPT !.filament_mm = FloatMilli(value) * 1000]
             ELSE [info EXCEPT !.filament_mm = FloatMilli(value)]
        ELSE IF LayerCountHint(line_stripped) # <<>>
        THEN [info EXCEPT !.layer_count = DigitsValue(LayerCountHint(line_stripped), 0)]
        ELSE IF LayerHint(line_stripped)
        THEN [info EXCEPT !.layer_count = info.layer_count + 1]
        ELSE info

\* The loop over the lines from line k on.
RECURSIVE Scan(_, _, _)
Scan(lines, k, info) ==
    IF k > Len(lines) THEN info ELSE Scan(lines, k + 1, ScanLine(info, lines[k]))

\* line.strip().startswith(('G1 ', 'G0 '))
IsMove(line) ==
    \/ StartsWith(Strip(line), <<"G", "1", " ">>)
    \/ StartsWith(Strip(line), <<"G", "0", " ">>)

\* re.search(r'E([\d.]+)', line): group 1, <<>> if no match.
EValue(line) ==
    LET at == { p \in 1..Len(line) :
                  line[p] = "E" /\ p < Len(line) /\ line[p + 1] \in Digits \cup {"."} }
    IN  IF at = {} THEN <<>>
        ELSE Run(line, (CHOOSE p \in at : \A q \in at : p <= q) + 1, Digits \cup {"."})

\* max_e in thousandths after the lines from line k on.
RECURSIVE MaxE(_, _, _)
MaxE(lines, k, max_e) ==
    IF k > Len(lines) THEN max_e
    ELSE LET text == EValue(lines[k])
         IN  IF text = <<>> \/ FloatRaises(text) THEN MaxE(lines, k + 1, max_e)
             ELSE MaxE(lines, k + 1, Max(max_e, FloatMilli(text)))

\* The fallback for a filament length of 0, in thousandths: max_e if it is
\* positive, 1000 mm otherwise.
FilamentFallback(lines) ==
    LET max_e == MaxE(lines, 1, 0)
    IN  IF max_e > 0 THEN max_e ELSE 1000 * 1000

\* XYZFileConverter.extract_print_info(gcode); filament_mm is in thousandths
\* of a millimetre.
extract_print_info(gcode) ==
    LET lines == SplitLines(gcode)
        info == Scan(lines, 1, [raised |-> FALSE, print_time_sec |-> 0,
                                filament_mm |-> 0, layer_count |-> 0])
        g1_count == Cardinality({ k \in 1..Len(lines) : IsMove(lines[k]) })
    IN  IF info.raised THEN info
        ELSE [raised |-> FALSE,
              print_time_sec |-> IF info.print_time_sec = 0
                                 THEN Max(60, g1_count \div 10)
                                 ELSE info.print_time_sec,
              filament_mm |-> IF info.filament_mm = 0
                              THEN FilamentFallback(lines)
                              ELSE info.filament_mm,
              layer_count |-> info.layer_count]

\* The lines of the texts extract_print_info is run on.
InfoLines ==
    { <<";", "T", "I", "M", "E", ":", "9", "0">>,
      <<";", " ", "e", "s", "t", "i", "m", "a", "t", "e", "d", " ", "p", "r", "i", "n", "t", "i", "n", "g", " ", "t", "i", "m", "e", " ", "(", "n", "o", "r", "m", "a", "l", " ", "m", "o", "d", "e", ")", " ", "=", " ", "1", "h", " ", "2", "m", " ", "3", "s">>,
      <<";", "F", "i", "l", "a", "m", "e", "n", "t", " ", "u", "s", "e", "d", ":", " ", "1", ".", "5", "m">>,
      <<";", "M", "A", "T", "E", "R", "I", "A", "L", ":", "1", ".", "2", ".", "3">>,
      <<";", "L", "A", "Y", "E", "R", "_", "C", "O", "U", "N", "T", ":", "3">>,
      <<";", " ", "l", "a", "y", "e", "r", ":", " ", "0">>,
      <<"G", "1", " ", "X", "1", " ", "E", "0", ".", "5">>,
      <<"G", "1", " ", "X", "1", " ", "E", "2", ".", "5", " ">>,
      <<"G", "0", " ", "X", "1", " ", "Y", "1">>,
      <<";", "M", "A", "T", "E", "R", "I", "A", "L", " ", "=", " ", "1", "2", "m", "m">> }

\* Texts of up to n lines, each with its `\n`.
RECURSIVE InfoTexts(_)
InfoTexts(n) ==
    IF n = 0 THEN { <<>> }
    ELSE InfoTexts(n - 1) \cup { g \o l \o <<"\n">> : g \in InfoTexts(n - 1), l \in InfoLines }

\* info = XYZFileConverter.extract_print_info(gcode) returns.
ExtractReturn ==
    /\ call.op = "text"
    /\ ~extract_print_info(call.gcode).raised
    /\ call' = [op |-> "info", gcode |-> call.gcode, info |-> extract_print_info(call.gcode)]
    /\ UNCHANGED << serial, proto_connected, connected, port, lock, monitor_active,
                    monitor_thread, job_status, host, poller, job, wire, orphan, status >>

\* XYZFileConverter.extract_print_info(gcode) raises ValueError.
ExtractRaise ==
    /\ call.op = "text"
    /\ extract_print_info(call.gcode).raised
    /\ call' = [op |-> "raised", gcode |-> call.gcode]
    /\ UNCHANGED << serial, proto_connected, connected, port, lock, monitor_active,
                    monitor_thread, job_status, host, poller, job, wire, orphan, status >>

InitExtract ==
    /\ serial = "none"
    /\ proto_connected = FALSE
    /\ connected = FALSE
    /\ port = ""
    /\ lock = Free
    /\ monitor_active = FALSE
    /\ monitor_thread = 0
    /\ job_status = IdleStatus
    /\ host = IdleHost
    /\ poller = [i \in PollerIds |-> "unused"]
    /\ job = [j \in JobIds |-> UnusedJob]
    /\ wire = <<>>
    /\ orphan = FALSE
    /\ call \in { [op |-> "text", gcode |-> g] : g \in InfoTexts(MaxLines) }
    /\ status = NoStatus

NextExtract == ExtractReturn \/ ExtractRaise

SpecExtract == InitExtract /\ [][NextExtract]_vars

\* ------------------------------------------------------------ SpecDecode
\* decrypt_3w_to_gcode on buffers that no encoder wrote: files of the
\* encoder with a byte or a header field changed, a body cut short, a body
\* that was encrypted without padding or without the zip.

\* data with bytes written over it from offset on.
Patch(data, offset, bytes) ==
    [k \in 1..Len(data) |->
        IF k > offset /\ k <= offset + Len(bytes) THEN bytes[k - offset] ELSE data[k]]

\* The changes made to a file.
Changes == { "intact", "magic", "offset", "size", "cut", "padding", "raw", "short" }

\* The buffer a change makes of the file the encoder writes for gcode.
Buffer(model_number, gcode, change) ==
    LET print_time_sec == <<"3", "6", "0", "0">>
        filament_mm == [whole |-> <<"1", "2", "3", "4">>, tenth |-> "7"]
        file == convert_gcode_to_3w(model_number, gcode, print_time_sec, filament_mm).file
        size == Len(file) - HEADER_SIZE
        plain == Utf8Encode(Preprocess(model_number, gcode, print_time_sec, filament_mm))
        blocks == SubSeq(plain, 1, (Len(plain) \div 16) * 16)
        body == IF change = "raw" /\ ~use_ecb(model_number)
                THEN CbcEncrypt(AES_KEY_BASE, AES_IV, Pkcs7Pad(plain))
                ELSE IF use_ecb(model_number) THEN EcbEncrypt(AES_KEY_256, blocks)
                ELSE CbcEncrypt(AES_KEY_BASE, AES_IV, blocks)
    IN  CASE change = "intact" -> file
          [] change = "magic" -> Patch(file, 0, << 0 >>)
          [] change = "offset" -> Patch(file, 80, PackSize(HEADER_SIZE + 16))
          [] change = "size" -> Patch(file, 84, PackSize(size + 16))
          [] change = "cut" ->
                Patch(SubSeq(file, 1, Len(file) - 8), 84, PackSize(size - 8))
          [] change = "padding" ->
                Patch(Patch(SubSeq(file, 1, HEADER_SIZE), 84, PackSize(Len(body))),
                      88, PackSize(Len(blocks))) \o body
          [] change = "raw" ->
                Patch(SubSeq(file, 1, HEADER_SIZE), 84, PackSize(Len(body))) \o body
          [] change = "short" -> SubSeq(file, 1, HEADER_SIZE - 1)

\* The models the buffers are made for: one of each cipher class.
DecodeModels ==
    { <<"d", "v", "1", "M", "X", "0", "A", "0", "0", "0">>,
      <<"d", "v", "1", "J", "P", "0", "A", "0", "0", "0">> }

\* The exception decrypt_3w_to_gcode ends with, "none" if it returns: the
\* ValueError of its length test, and the ValueError cipher.decrypt raises
\* in ECB and in CBC mode for data whose length is no multiple of 16.
DecodeRaises(three_w_data) ==
    IF Len(three_w_data) < 8192 THEN "ValueError"
    ELSE LET body_offset == UnpackAt(three_w_data, 80)
             encrypted_size == UnpackAt(three_w_data, 84)
             enc_type == UnpackAt(three_w_data, 104)
             encrypted == Slice(three_w_data, body_offset, body_offset + encrypted_size)
         IN  IF enc_type \in {1, 2} /\ Len(encrypted) % 16 # 0 THEN "ValueError"
             ELSE "none"

\* text = XYZFileConverter.decrypt_3w_to_gcode(three_w_data) returns.
DecodeReturn ==
    /\ call.op = "buffer"
    /\ DecodeRaises(call.data) = "none"
    /\ call' = [op |-> "text", change |-> call.change, model_number |-> call.model_number,
                gcode |-> call.gcode, data |-> call.data,
                text |-> decrypt_3w_to_gcode(call.data)]
    /\ UNCHANGED << serial, proto_connected, connected, port, lock, monitor_active,
                    monitor_thread, job_status, host, poller, job, wire, orphan, status >>

\* XYZFileConverter.decrypt_3w_to_gcode(three_w_data) raises.
DecodeRaise ==
    /\ call.op = "buffer"
    /\ DecodeRaises(call.data) # "none"
    /\ call' = [op |-> "raised", change |-> call.change, model_number |-> call.model_number,
                gcode |-> call.gcode, data |-> call.data,
                error |-> DecodeRaises(call.data)]
    /\ UNCHANGED << serial, proto_connected, connected, port, lock, monitor_active,
                    monitor_thread, job_status, host, poller, job, wire, orphan, status >>

InitDecode ==
    /\ serial = "none"
    /\ proto_connected = FALSE
    /\ connected = FALSE
    /\ port = ""
    /\ lock = Free
    /\ monitor_active = FALSE
    /\ monitor_thread = 0
    /\ job_status = IdleStatus
    /\ host = IdleHost
    /\ poller = [i \in PollerIds |-> "unused"]
    /\ job = [j \in JobIds |-> UnusedJob]
    /\ wire = <<>>
    /\ orphan = FALSE
    /\ call \in { [op |-> "buffer", change |-> c, model_number |-> m, gcode |-> g,
                   data |-> Buffer(m, g, c)] :
                  c \in Changes, m \in DecodeModels, g \in Gcodes(MaxLines - 1) }
    /\ status = NoStatus

NextDecode == DecodeReturn \/ DecodeRaise

SpecDecode == InitDecode /\ [][NextDecode]_vars

\* ---------------------------------------------------------- SpecProgress
\* The `progress` key of _job_status and the values upload_file hands to its
\* progress_callback. The job threads of a connected manager are followed
\* from the request that starts them; an upload is followed block by block,
\* each block acknowledged or not. job_status is the record with its
\* progress, and the record of a job thread has the kind of the job, the
\* size of its .3w buffer and the values its callback was called with.

\* The sizes of the .3w buffers: none, and MaxBlocks blocks, the last of them
\* of one byte.
ProgressSizes == { 0, (MaxBlocks - 1) * BlockSize + 1 }

\* self._job_status of PrinterManager.__init__
NoJobStatus == [active |-> FALSE, stage |-> "", progress |-> 0]

NoJob ==
    [pc |-> "unused", kind |-> "", size |-> 0, offset |-> 0, block_num |-> 0,
     sink |-> <<>>, success |-> FALSE]

\* `pct = (offset / file_size) * 100` and `min(pct, 100)`, as a fraction.
Pct(offset, file_size) ==
    IF offset > file_size THEN [num |-> 100 * file_size, den |-> file_size]
    ELSE [num |-> offset * 100, den |-> file_size]

\* `overall` of on_progress: 40 + int(pct * 0.55) in _do_slice_and_print and
\* 30 + int(pct * 0.65) in _do_send_gcode.
on_progress(kind, pct) ==
    IF kind = "slice" THEN 40 + (pct.num * 55) \div (pct.den * 100)
    ELSE 30 + (pct.num * 65) \div (pct.den * 100)

\* slice_and_print and send_gcode_file: the request starts a thread unless
\* the manager is not connected or the record says a job is active.
ProgressRequest(kind) ==
    /\ connected
    /\ ~job_status.active
    /\ \E j \in JobIds :
         /\ job[j].pc = "unused"
         /\ \A k \in 1..(j - 1) : job[k].pc # "unused"
         /\ job' = [job EXCEPT ![j] = [NoJob EXCEPT !.pc = "start", !.kind = kind]]
    /\ UNCHANGED << lock, job_status >>
    /\ UNCHANGED << serial, proto_connected, connected, port, monitor_active,
                    monitor_thread, host, poller, wire, orphan, call, status >>

\* The first statement of _do_slice_and_print and _do_send_gcode.
ProgressStart(j) ==
    /\ job[j].pc = "start"
    /\ job_status' = IF job[j].kind = "slice"
                     THEN [active |-> TRUE, stage |-> "slicing", progress |-> 0]
                     ELSE [active |-> TRUE, stage |-> "converting", progress |-> 10]
    /\ job' = [job EXCEPT ![j].pc = IF job[j].kind = "slice" THEN "slice" ELSE "convert"]
    /\ UNCHANGED lock
    /\ UNCHANGED << serial, proto_connected, connected, port, monitor_active,
                    monitor_thread, host, poller, wire, orphan, call, status >>

\* Stage 1 of _do_slice_and_print: a G-code file, or none.
ProgressSlice(j) ==
    /\ job[j].pc = "slice"
    /\ \E sliced \in BOOLEAN :
         IF sliced
         THEN /\ job_status' = [job_status EXCEPT !.stage = "converting", !.progress = 30]
              /\ job' = [job EXCEPT ![j].pc = "convert"]
         ELSE /\ job_status' = [job_status EXCEPT !.stage = "error", !.active = FALSE]
              /\ job' = [job EXCEPT ![j] = [NoJob EXCEPT !.pc = "exit"]]
    /\ UNCHANGED lock
    /\ UNCHANGED << serial, proto_connected, connected, port, monitor_active,
                    monitor_thread, host, poller, wire, orphan, call, status >>

\* The conversion and the update before the upload, or an exception.
ProgressConvert(j) ==
    /\ job[j].pc = "convert"
    /\ \/ \E n \in ProgressSizes :
            /\ job_status' = [job_status EXCEPT
                                 !.stage = "uploading",
                                 !.progress = IF job[j].kind = "slice" THEN 40 ELSE 30]
            /\ job' = [job EXCEPT ![j].pc = "lock", ![j].size = n]
       \/ /\ job_status' = [job_status EXCEPT !.stage = "error", !.active = FALSE]
          /\ job' = [job EXCEPT ![j] = [NoJob EXCEPT !.pc = "exit"]]
    /\ UNCHANGED lock
    /\ UNCHANGED << serial, proto_connected, connected, port, monitor_active,
                    monitor_thread, host, poller, wire, orphan, call, status >>

\* `with self._lock:` and upload_file up to its block loop: the initiation
\* line is acknowledged, or upload_file returns False.
ProgressInit(j) ==
    /\ job[j].pc = "lock"
    /\ lock = Free
    /\ \E acked \in BOOLEAN :
         IF acked
         THEN /\ job' = [job EXCEPT ![j].pc = IF 0 < job[j].size THEN "block" ELSE "finish"]
              /\ lock' = Job(j)
         ELSE /\ job' = [job EXCEPT ![j].pc = "result", ![j].success = FALSE]
              /\ lock' = Free
    /\ UNCHANGED job_status
    /\ UNCHANGED << serial, proto_connected, connected, port, monitor_active,
                    monitor_thread, host, poller, wire, orphan, call, status >>

\* One pass of `while offset < file_size:`: the block is acknowledged and
\* progress_callback is called, or upload_file returns False.
ProgressBlock(j) ==
    /\ job[j].pc = "block"
    /\ \E acked \in BOOLEAN :
         IF acked
         THEN LET offset == Min(job[j].offset + BlockSize, job[j].size)
                  pct == Pct(offset, job[j].size)
              IN  /\ job' = [job EXCEPT ![j].offset = offset,
                                        ![j].block_num = job[j].block_num + 1,
                                        ![j].sink = Append(job[j].sink, pct),
                                        ![j].pc = IF offset < job[j].size
                                                  THEN "block" ELSE "finish"]
                  /\ job_status' = [job_status EXCEPT
                                       !.progress = on_progress(job[j].kind, pct)]
                  /\ UNCHANGED lock
         ELSE /\ job' = [job EXCEPT ![j].pc = "result", ![j].success = FALSE]
              /\ lock' = Free
              /\ UNCHANGED job_status
    /\ UNCHANGED << serial, proto_connected, connected, port, monitor_active,
                    monitor_thread, host, poller, wire, orphan, call, status >>

\* XYZv3/uploadDidFinish: upload_file returns True whatever the answer, and
\* False when the port fails.
ProgressFinish(j) ==
    /\ job[j].pc = "finish"
    /\ \E ioerr \in BOOLEAN :
         job' = [job EXCEPT ![j].pc = "result", ![j].success = ~ioerr]
    /\ lock' = Free
    /\ UNCHANGED job_status
    /\ UNCHANGED << serial, proto_connected, connected, port, monitor_active,
                    monitor_thread, host, poller, wire, orphan, call, status >>

\* `if success:` and its two updates of the record.
ProgressResult(j) ==
    /\ job[j].pc = "result"
    /\ job_status' = IF job[j].success
                     THEN [job_status EXCEPT !.stage = "done", !.progress = 100,
                                             !.active = FALSE]
                     ELSE [job_status EXCEPT !.stage = "error", !.active = FALSE]
    /\ job' = [job EXCEPT ![j] = [NoJob EXCEPT !.pc = "exit"]]
    /\ UNCHANGED lock
    /\ UNCHANGED << serial, proto_connected, connected, port, monitor_active,
                    monitor_thread, host, poller, wire, orphan, call, status >>

InitProgress ==
    /\ serial = "open"
    /\ proto_connected = TRUE
    /\ connected = TRUE
    /\ port \in Ports
    /\ lock = Free
    /\ monitor_active = FALSE
    /\ monitor_thread = 0
    /\ job_status = NoJobStatus
    /\ host = IdleHost
    /\ poller = [i \in PollerIds |-> "unused"]
    /\ job = [j \in JobIds |-> NoJob]
    /\ wire = <<>>
    /\ orphan = FALSE
    /\ call = NoCall
    /\ status = NoStatus

NextProgress ==
    \/ \E kind \in {"slice", "gcode"} : ProgressRequest(kind)
    \/ \E j \in JobIds :
         \/ ProgressStart(j)
         \/ ProgressSlice(j)
         \/ ProgressConvert(j)
         \/ ProgressInit(j)
         \/ ProgressBlock(j)
         \/ ProgressFinish(j)
         \/ ProgressResult(j)

SpecProgress == InitProgress /\ [][NextProgress]_vars

\* ------------------------------------------------------------ SpecStream
\* A sequence of _send_command calls on one connected session. The bytes the
\* printer sends are kept by the port until a read takes them: what one call
\* does not read is what the first read of the next call returns, for
\* _send_command reads `in_waiting` bytes and never resets the input buffer.
\* Every chunk carries the numbers of the commands its bytes answer.

\* Commands one run sends.
MaxCommands == 4

\* The replies to a command: ok$ in time, ok$ after the timeout, ok$ whose
\* second half comes after the timeout, ok$ followed by more bytes in a later
\* second, E0$ in time, text without `$`, and nothing.
StreamReplies ==
    { Text(1, <<"o", "k", "$">>),
      Text(10, <<"o", "k", "$">>),
      Reply(<<Chunk(1, <<"o">>), Chunk(10, <<"k", "$">>)>>),
      Reply(<<Chunk(1, <<"o", "k", "$">>), Chunk(2, <<"x">>)>>),
      Text(1, <<"E", "0", "$">>),
      Text(1, <<"E", "0">>),
      ReplyNone }

\* The chunks of the reply to command n.
Tagged(chunks, n) ==
    [k \in 1..Len(chunks) |-> [at |-> chunks[k].at, text |-> chunks[k].text, of |-> {n}]]

\* The chunks the read loop of _send_command takes: as many as make up the
\* bytes it has read.
Consumed(chunks) ==
    CHOOSE k \in 0..Len(chunks) :
        ReplyText(SubSeq(chunks, 1, k)) = ReadLoop(chunks, 1, 0, <<>>)

\* The commands whose bytes the chunks hold.
RECURSIVE Of(_)
Of(chunks) == IF chunks = <<>> THEN {} ELSE chunks[1].of \cup Of(Tail(chunks))

\* The chunks no read has taken, as the port holds them when the next
\* command is sent: all of them have arrived and one read returns them.
Waiting(chunks) ==
    IF chunks = <<>> THEN <<>>
    ELSE << [at |-> 0, text |-> ReplyText(chunks), of |-> Of(chunks)] >>

\* No command was sent and the input buffer is empty, as connect leaves it.
NoStream == [op |-> "stream", sent |-> 0, waiting |-> <<>>]

\* _send_command(cmd) for the next command: the write, the read loop and
\* the text returned; `from` are the commands whose replies the text is
\* made of.
SendCommand ==
    /\ call.op = "stream"
    /\ call.sent < MaxCommands
    /\ is_connected
    /\ \E r \in StreamReplies :
         LET n == call.sent + 1
             chunks == call.waiting \o Tagged(r.chunks, n)
             k == Consumed(chunks)
         IN  call' = [op |-> "stream", sent |-> n, reply |-> r,
                      response |-> Strip(Without(ReadLoop(chunks, 1, 0, <<>>), "$")),
                      from |-> Of(SubSeq(chunks, 1, k)),
                      waiting |-> Waiting(SubSeq(chunks, k + 1, Len(chunks)))]
    /\ UNCHANGED << serial, proto_connected, connected, port, lock, monitor_active,
                    monitor_thread, job_status, host, poller, job, wire, orphan, status >>

InitStream ==
    /\ serial = "open"
    /\ proto_connected = TRUE
    /\ connected = TRUE
    /\ port \in Ports
    /\ lock = Free
    /\ monitor_active = FALSE
    /\ monitor_thread = 0
    /\ job_status = IdleStatus
    /\ host = IdleHost
    /\ poller = [i \in PollerIds |-> "unused"]
    /\ job = [j \in JobIds |-> UnusedJob]
    /\ wire = <<>>
    /\ orphan = FALSE
    /\ call = NoStream
    /\ status = NoStatus

NextStream == SendCommand

SpecStream == InitStream /\ [][NextStream]_vars

\* ------------------------------------------------------------ SpecStatus
\* get_status on the host thread while the poller of a connected session
\* queries: query_status fills a new XYZPrinterStatus field by field, the
\* poller stores the returned object in _status, and get_status takes
\* `s = self._status` and reads the fields of s one after the other.

\* Queries one run makes.
MaxQueries == 3

\* query_status on the published object instead of a new one.
StatusNewInPlace(made) == status.ref

\* `status = XYZPrinterStatus()` in query_status: the object the query whose
\* number is `made` fills is a new one.
StatusNew(made) == made

\* Poller i takes the lock and query_status makes its object.
StatusQuery(i) ==
    /\ poller[i] = "lock"
    /\ lock = Free
    /\ status.made < MaxQueries
    /\ lock' = Poller(i)
    /\ poller' = [poller EXCEPT ![i] = "parse_state"]
    /\ LET q == status.made + 1
           new == StatusNew(q)
       IN  status' = [status EXCEPT
                        !.made = q,
                        !.heap = IF new > Len(@) THEN Append(@, BlankStatus(q))
                                 ELSE [@ EXCEPT ![new] = BlankStatus(q)]]
    /\ UNCHANGED << serial, proto_connected, connected, port, monitor_active,
                    monitor_thread, job_status, host, job, wire, orphan, call >>

\* The parse of the `j` segment: status.state is set, or the segment is
\* missing or the query failed and the field keeps its default.
StatusParseState(i) ==
    /\ poller[i] = "parse_state"
    /\ poller' = [poller EXCEPT ![i] = "parse_temp"]
    /\ \E parsed \in BOOLEAN :
         status' = [status EXCEPT
                      !.heap[StatusNew(status.made)].state = Field(status.made, parsed)]
    /\ UNCHANGED << serial, proto_connected, connected, port, lock, monitor_active,
                    monitor_thread, job_status, host, job, wire, orphan, call >>

\* The parse of the `t` segment: status.extruder_temp.
StatusParseTemp(i) ==
    /\ poller[i] = "parse_temp"
    /\ poller' = [poller EXCEPT ![i] = "publish"]
    /\ \E parsed \in BOOLEAN :
         status' = [status EXCEPT
                      !.heap[StatusNew(status.made)].extruder_temp = Field(status.made, parsed)]
    /\ UNCHANGED << serial, proto_connected, connected, port, lock, monitor_active,
                    monitor_thread, job_status, host, job, wire, orphan, call >>

\* `self._status = self.protocol.query_status()` and the end of the `with`.
StatusPublish(i) ==
    /\ poller[i] = "publish"
    /\ poller' = [poller EXCEPT ![i] = "loop"]
    /\ lock' = Free
    /\ status' = [status EXCEPT !.ref = StatusNew(status.made)]
    /\ UNCHANGED << serial, proto_connected, connected, port, monitor_active,
                    monitor_thread, job_status, host, job, wire, orphan, call >>

\* get_status: `s = self._status`.
GetStatus ==
    /\ host.pc = "idle"
    /\ host' = [pc |-> "get_state"]
    /\ status' = [status EXCEPT !.s = status.ref]
    /\ UNCHANGED << serial, proto_connected, connected, port, lock, monitor_active,
                    monitor_thread, job_status, poller, job, wire, orphan, call >>

\* get_status: `"state_code": s.state`.
GetStatusState ==
    /\ host.pc = "get_state"
    /\ host' = [pc |-> "get_temp"]
    /\ status' = [status EXCEPT !.view.state = status.heap[status.s].state]
    /\ UNCHANGED << serial, proto_connected, connected, port, lock, monitor_active,
                    monitor_thread, job_status, poller, job, wire, orphan, call >>

\* get_status: `"extruder_temp": s.extruder_temp`.
GetStatusTemp ==
    /\ host.pc = "get_temp"
    /\ host' = [pc |-> "got"]
    /\ status' = [status EXCEPT !.view.extruder_temp = status.heap[status.s].extruder_temp]
    /\ UNCHANGED << serial, proto_connected, connected, port, lock, monitor_active,
                    monitor_thread, job_status, poller, job, wire, orphan, call >>

\* get_status returns the dict.
GetStatusReturn ==
    /\ host.pc = "got"
    /\ host' = IdleHost
    /\ UNCHANGED << serial, proto_connected, connected, port, lock, monitor_active,
                    monitor_thread, job_status, poller, job, wire, orphan, call, status >>

InitStatus ==
    /\ serial = "open"
    /\ proto_connected = TRUE
    /\ connected = TRUE
    /\ port \in Ports
    /\ lock = Free
    /\ monitor_active = TRUE
    /\ monitor_thread = 1
    /\ job_status = IdleStatus
    /\ host = IdleHost
    /\ poller = [i \in PollerIds |-> IF i = 1 THEN "loop" ELSE "unused"]
    /\ job = [j \in JobIds |-> UnusedJob]
    /\ wire = <<>>
    /\ orphan = FALSE
    /\ call = NoCall
    /\ status = NoStatus

NextStatus ==
    \/ PollerLoop(1)
    \/ StatusQuery(1)
    \/ StatusParseState(1)
    \/ StatusParseTemp(1)
    \/ StatusPublish(1)
    \/ GetStatus
    \/ GetStatusState
    \/ GetStatusTemp
    \/ GetStatusReturn

SpecStatus == InitStatus /\ [][NextStatus]_vars

\* ---------------------------------------------------------- SpecSnapshot
\* PrinterManager._status over the polls of a session: connect stores the
\* first query's object and takes the model number, the model name and the
\* firmware from it, each tick of _monitor_loop stores the object of its own
\* query. Here `status` is the manager's record of these attributes.

\* `status = XYZPrinterStatus()` kept from the query before.
FreshStatusKept(prev) == prev

\* `status = XYZPrinterStatus()` in query_status, where the published
\* object is prev.
FreshStatus(prev) == NewStatus

\* The loops of query_status over the segments of a response.
RECURSIVE ParseAll(_, _)
ParseAll(st, segs) ==
    IF segs = <<>> THEN st ELSE ParseAll(ParseSegment(st, Head(segs)), Tail(segs))

\* query_status() when the published object is prev and the printer's reply
\* is r: _send_command raises on a closed session and on an I/O error, and
\* the new object is returned as it is.
query_status(prev, r) ==
    IF ~is_connected \/ r.fail THEN FreshStatus(prev)
    ELSE ParseAll(FreshStatus(prev), Segments(ResponseText(r)))

\* The replies to XYZv3/query=a: a full one, one with the state only, one
\* with the temperatures only, one of a printer the table does not list, one
\* whose state is no integer, none, and an I/O error.
SnapshotReplies ==
    { Text(1, <<"n", ":", "d", "v", "1", "M", "X", "0", "A", "0", "0", "0", ".", "v", ":", "1", ".", "3", ".", "5", ".", "j", ":", "9", "0", "0", "2", ",", "0", ".", "t", ":", "1", ",", "2", "0", "5", ",", "0", ",", "2", "1", "0", "$">>),
      Text(1, <<"j", ":", "9", "5", "1", "1", ",", "1", "1", "$">>),
      Text(1, <<"t", ":", "1", ",", "6", "0", ",", "0", ",", "2", "1", "0", "$">>),
      Text(1, <<"n", ":", "d", "v", "X", ".", "v", ":", "2", ".", "0", "$">>),
      Text(1, <<"j", ":", "9", "a", ".", "e", ":", "3", "$">>),
      ReplyNone,
      ReplyIoError }

\* PrinterManager.__init__
NoSnapshot ==
    [op |-> "init", polls |-> 0, reply |-> ReplyNone, failed |-> FALSE,
     snapshot |-> NewStatus, model_number |-> <<>>, model_name |-> "Unknown",
     firmware |-> <<>>]

\* PrinterManager.connect with the attributes it takes from the first
\* status: an open session is closed, the port opens or does not; when it
\* does, the status is queried and stored and the monitor started.
SnapshotConnect(p) ==
    /\ host.pc = "idle"
    /\ lock = Free
    /\ \E i \in PollerIds : poller[i] = "unused"
    /\ \E opened \in BOOLEAN, r \in SnapshotReplies :
         IF opened
         THEN LET st == IF r.fail THEN FreshStatus(status.snapshot)
                        ELSE ParseAll(FreshStatus(status.snapshot), Segments(ResponseText(r)))
              IN  /\ serial' = "open"
                  /\ proto_connected' = TRUE
                  /\ connected' = TRUE
                  /\ port' = p
                  /\ monitor_active' = TRUE
                  /\ monitor_thread' = NextPoller
                  /\ poller' = [poller EXCEPT ![NextPoller] = "loop"]
                  /\ status' = [status EXCEPT
                        !.op = "connect", !.reply = r, !.failed = r.fail,
                        !.snapshot = st,
                        !.model_number = st.model_number,
                        !.model_name =
                            IF \E d \in PRINTER_DB : d.number = st.model_number
                            THEN (CHOOSE d \in PRINTER_DB : d.number = st.model_number).name
                            ELSE IF st.machine_name # "" THEN st.machine_name
                            ELSE "Unknown Model",
                        !.firmware = st.firmware_version]
         ELSE /\ r = ReplyNone
              /\ serial' = "none"
              /\ proto_connected' = FALSE
              /\ status' = [status EXCEPT !.op = "refused"]
              /\ UNCHANGED << connected, port, monitor_active, monitor_thread, poller >>
    /\ UNCHANGED << lock, job_status, host, job, wire, orphan, call >>

\* A tick of _monitor_loop that queries:
\* `with self._lock: self._status = self.protocol.query_status()`.
SnapshotPoll(i) ==
    /\ poller[i] = "lock"
    /\ lock = Free
    /\ status.polls < MaxQueries
    /\ poller' = [poller EXCEPT ![i] = "loop"]
    /\ \E r \in SnapshotReplies :
         status' = [status EXCEPT
                      !.op = "poll", !.polls = @ + 1, !.reply = r,
                      !.failed = (~is_connected \/ r.fail),
                      !.snapshot = query_status(status.snapshot, r)]
    /\ UNCHANGED << serial, proto_connected, connected, port, lock, monitor_active,
                    monitor_thread, job_status, host, job, wire, orphan, call >>

InitSnapshot ==
    /\ serial = "none"
    /\ proto_connected = FALSE
    /\ connected = FALSE
    /\ port = ""
    /\ lock = Free
    /\ monitor_active = FALSE
    /\ monitor_thread = 0
    /\ job_status = IdleStatus
    /\ host = IdleHost
    /\ poller = [i \in PollerIds |-> "unused"]
    /\ job = [j \in JobIds |-> UnusedJob]
    /\ wire = <<>>
    /\ orphan = FALSE
    /\ call = NoCall
    /\ status = NoSnapshot

NextSnapshot ==
    \/ \E p \in Ports : SnapshotConnect(p)
    \/ \E i \in PollerIds : PollerLoop(i)
    \/ \E i \in PollerIds : SnapshotPoll(i)

SpecSnapshot == InitSnapshot /\ [][NextSnapshot]_vars

\* ----------------------------------------------------------- SpecSession
\* The connect, disconnect and control requests of a manager and its
\* pollers, with every outcome of opening the port.

NextSession ==
    \/ \E p \in Ports : HostConnect(p, OpenOutcomes)
    \/ HostDisconnectCall
    \/ HostDisconnect
    \/ HostJoin
    \/ HostCommand
    \/ HostCommandSend
    \/ \E i \in PollerIds : PollerStep(i)

SpecSession == Init /\ [][NextSession]_vars

\* ---------------------------------------------------------------- claims

\* The positions of the log holding a write of one of `kinds`.
TxAt(w, kinds) == { k \in 1..Len(w) : w[k].ev = "tx" /\ w[k].kind \in kinds }

\* C1: the manager lock is held for the whole of upload_file. While an upload
\* is between its initiation line and its return, the lock belongs to the
\* uploading thread, and everything that went over the port since the
\* initiation line was written or read by that thread: no status query and
\* no control command lies between two lines or frames of the transfer.
C1_UploadHoldsLock ==
    wire # <<>> =>
        /\ wire[1].ev = "tx" /\ wire[1].kind = "upload"
        /\ \A k \in 1..Len(wire) : wire[k].who = wire[1].who
        /\ TxAt(wire, {"query", "cmd"}) = {}
        /\ WireOpen => lock = wire[1].who

\* An upload has a frame on the wire while a poller and a control request
\* both wait for the lock.
C1_Witness ==
    /\ WireOpen
    /\ TxAt(wire, {"frame"}) # {}
    /\ \E i \in PollerIds : poller[i] = "lock"
    /\ host.pc = "cmd_lock"

\* The frames of the log, in the order they were written.
Frames(w) == SelectSeq(w, LAMBDA e : e.ev = "tx" /\ e.kind = "frame")

\* The number a frame's four bytes from position p stand for, high byte first.
U32At(f, p) == f[p] * 16777216 + f[p + 1] * 65536 + f[p + 2] * 256 + f[p + 3]

\* The bytes of a frame between its header and its footer.
FrameData(f) == SubSeq(f, 9, Len(f) - 4)

RECURSIVE FramesData(_)
FramesData(fs) == IF fs = <<>> THEN <<>> ELSE FrameData(fs[1].data) \o FramesData(Tail(fs))

\* ceil(n / 8192)
BlocksOf(n) == (n + 8191) \div 8192

\* The upload is past its block loop: every block was acknowledged.
BlocksDone(j) ==
    \/ job[j].pc = "finish"
    \/ job[j].pc = "result" /\ TxAt(wire, {"finish"}) # {}

\* C2: a payload of n bytes whose blocks are all acknowledged goes out in
\* exactly ceil(n / 8192) frames. Frame k (from 0) is 4 bytes holding k high
\* byte first, 4 bytes holding the data length high byte first, the data, and
\* 4 zero bytes; every frame but the last holds 8192 bytes and the last holds
\* the rest; the data of the frames in order is the payload.
C2_Framing ==
    BlocksDone(1) =>
        LET n == job[1].size
            fs == Frames(wire)
        IN  /\ Len(fs) = BlocksOf(n)
            /\ \A k \in 1..Len(fs) :
                  LET f == fs[k].data
                      len == IF k < Len(fs) THEN 8192 ELSE n - 8192 * (Len(fs) - 1)
                  IN  /\ Len(f) = len + 12
                      /\ U32At(f, 1) = k - 1
                      /\ U32At(f, 5) = len
                      /\ SubSeq(f, Len(f) - 3, Len(f)) = <<0, 0, 0, 0>>
            /\ FramesData(fs) = Payload(n)

\* A payload one byte longer than a block went out in two frames and the
\* upload returned.
C2_Witness ==
    /\ job[1].pc = "result"
    /\ job[1].success
    /\ job[1].size = 8193
    /\ Len(Frames(wire)) = 2

\* The reply holds `ok`, whenever it arrived.
OkSeen(r) == ~r.fail /\ Contains(Lower(ReplyText(r.chunks)), TokOk)

\* The reply holds the error token.
ErrSeen(r) == ~r.fail /\ Contains(Lower(ReplyText(r.chunks)), TokErr)

\* An `ok` is complete in what arrived of the reply before second T.
OkInTime(r, T) ==
    /\ ~r.fail
    /\ \E k \in 1..Len(r.chunks) :
         /\ r.chunks[k].at < T
         /\ Contains(Lower(ReplyText(SubSeq(r.chunks, 1, k))), TokOk)

\* C3: the upload is a lock-step handshake. The initiation line is the first
\* thing written and is written once; every later write directly follows a
\* reply holding `ok` to the write before it; the block indices on the wire
\* are 0, 1, 2, ...; XYZv3/uploadDidFinish is written once all the payload
\* went out in acknowledged frames, and nothing is written after it.
C3_LockStep ==
    wire # <<>> =>
        /\ TxAt(wire, {"upload"}) = {1}
        /\ \A k \in 2..Len(wire) :
              /\ wire[k].ev = "tx" => wire[k - 1].ev = "rx" /\ OkSeen(wire[k - 1].data)
              /\ wire[k].ev = "rx" => wire[k - 1].ev = "tx"
        /\ \A k \in 1..Len(Frames(wire)) : U32At(Frames(wire)[k].data, 1) = k - 1
        /\ \A k \in TxAt(wire, {"finish"}) :
              /\ Len(FramesData(Frames(wire))) = wire[1].data.size
              /\ \A m \in TxAt(wire, {"upload", "frame", "finish"}) : m <= k

\* A whole handshake is on the wire: initiation, two frames, the finish line.
C3_Witness ==
    /\ Len(wire) = 9
    /\ wire[3].kind = "frame" /\ wire[5].kind = "frame" /\ wire[7].kind = "finish"
    /\ wire[9].ev = "ret"

\* C4: when the reply to the initiation line holds the error token, or no
\* `ok` arrives within TIMEOUT, the upload fails as rejected: no frame and no
\* XYZv3/uploadDidFinish is written for it and it returns False.
C4_InitiationRejected ==
    (/\ Len(wire) >= 2
     /\ wire[2].ev = "rx"
     /\ ~wire[2].data.fail
     /\ ErrSeen(wire[2].data) \/ ~OkInTime(wire[2].data, TIMEOUT))
    => /\ TxAt(wire, {"frame", "finish"}) = {}
       /\ wire[Len(wire)].ev = "ret" /\ wire[Len(wire)].data = FALSE
       /\ job[1].pc = "result" =>
             job[1].log = [msg |-> "Printer rejected upload initiation", block |-> 0]

\* C5: when the reply to the frame of block k holds no `ok` within
\* UPLOAD_TIMEOUT, the upload ends there: nothing more is written, it returns
\* False, and its error names block k.
C5_BlockAckTimeout ==
    \A k \in TxAt(wire, {"frame"}) :
        (/\ k < Len(wire)
         /\ wire[k + 1].ev = "rx"
         /\ ~wire[k + 1].data.fail
         /\ ~OkInTime(wire[k + 1].data, UPLOAD_TIMEOUT))
        => /\ Len(wire) = k + 2
           /\ wire[k + 2].ev = "ret" /\ wire[k + 2].data = FALSE
           /\ job[1].pc = "result" =>
                 /\ ~job[1].success
                 /\ job[1].log = [msg |-> "No ack for block", block |-> U32At(wire[k].data, 1)]

\* The `ok` for the second block came after UPLOAD_TIMEOUT and the upload
\* returned.
C5_Witness ==
    /\ job[1].pc = "result"
    /\ job[1].log = [msg |-> "No ack for block", block |-> 1]
    /\ Len(wire) = 7
    /\ wire[6].data = ReplyOkLate

\* The write at position k of the log was answered by an `ok` within T.
Acked(w, k, T) == k < Len(w) /\ w[k + 1].ev = "rx" /\ OkInTime(w[k + 1].data, T)

\* The initiation line and every block of the payload were acknowledged.
AllBlocksAcked ==
    /\ wire # <<>>
    /\ Acked(wire, 1, TIMEOUT)
    /\ Len(Frames(wire)) = BlocksOf(wire[1].data.size)
    /\ \A k \in TxAt(wire, {"frame"}) : Acked(wire, k, UPLOAD_TIMEOUT)

\* XYZv3/uploadDidFinish was written and the wait for its reply ended
\* without an I/O error of the port.
FinishExchanged ==
    \E k \in TxAt(wire, {"finish"}) :
        k < Len(wire) /\ wire[k + 1].ev = "rx" /\ ~wire[k + 1].data.fail

\* The job thread takes its last step.
JobEnds == job[1].pc = "result" /\ job'[1].pc = "exit"

\* C6 as stated: once every data block is acknowledged, the upload returns
\* True whatever follows XYZv3/uploadDidFinish, and the job ends in `done`.
C6_SuccessOnceBlocksAcked ==
    [][(job[1].pc = "result" /\ AllBlocksAcked) =>
         /\ job[1].success
         /\ JobEnds => job_status'.stage = "done" /\ ~job_status'.active]_vars

\* C6, amended: once every data block is acknowledged and
\* XYZv3/uploadDidFinish was written and its reply awaited without an I/O
\* error of the port, the upload returns True whether the reply holds `ok`,
\* an error or nothing, and the job thread ends the job in stage `done`; an
\* I/O error in that last exchange makes the upload return False and the job
\* end in stage `error`.
C6_FinalAckNotFatal ==
    [][(job[1].pc = "result" /\ AllBlocksAcked) =>
         /\ job[1].success = FinishExchanged
         /\ JobEnds =>
               /\ job_status'.stage = IF FinishExchanged THEN "done" ELSE "error"
               /\ ~job_status'.active]_vars

\* An upload whose last line was answered with an error, or with nothing,
\* returned True.
C6_Witness ==
    /\ job[1].pc = "result"
    /\ job[1].success
    /\ AllBlocksAcked
    /\ TxAt(wire, {"frame"}) # {}
    /\ wire[Len(wire) - 1].data \in {ReplyErr, ReplyNone}

\* Poller i goes through `with self._lock: ... query_status()` on an open
\* session: XYZv3/query=a is written.
PollerSends(i) == poller[i] = "lock" /\ poller'[i] = "loop" /\ is_connected

\* C7: the poller is paused while an upload is in progress: no poller sends
\* XYZv3/query=a while the stage of the job record is `uploading`.
C7_PollerPaused ==
    [][\A i \in PollerIds : PollerSends(i) => job_status.stage # "uploading"]_vars

\* The status poller threads that run.
Pollers == { i \in PollerIds : Polling(i) }

\* C8: between two requests, at most one status poller thread runs, and none
\* runs while the manager is disconnected.
C8_OnePoller ==
    host.pc = "idle" =>
        /\ Cardinality(Pollers) <= 1
        /\ ~connected => Pollers = {}

\* C9: at most one job thread runs at a time.
C9_OneJob == Cardinality({ j \in JobIds : Running(j) }) <= 1

WorkingStages == {"slicing", "converting", "uploading"}

\* A job thread runs its first statement.
JobStarts == \E j \in JobIds : job[j].pc \in {"start_slice", "start_gcode"} /\ job'[j] # job[j]

\* The next stages of a job after `stage`.
StagesAfter(stage) ==
    CASE stage = "slicing" -> {"converting", "error"}
      [] stage = "converting" -> {"uploading", "error"}
      [] stage = "uploading" -> {"done", "error"}
      [] OTHER -> {}

\* C10: `active` is true exactly in the stages slicing, converting and
\* uploading; the stage leaves idle, done and error only as a job starts,
\* for slicing or converting, and a working stage only for the next stage of
\* its job or for done or error.
C10_JobRecord ==
    /\ [](job_status.active <=> job_status.stage \in WorkingStages)
    /\ [][job_status'.stage # job_status.stage =>
            IF job_status.stage \in WorkingStages
            THEN job_status'.stage \in StagesAfter(job_status.stage)
            ELSE JobStarts /\ job_status'.stage \in {"slicing", "converting"}]_vars

\* The upload_file call of job thread j returns in this step.
UploadReturns(j) == job[j].pc \in {"upload", "frame", "finish"} /\ job'[j].pc = "result"

\* C11: closing the session cancels. An upload that is in progress when
\* disconnect is called does not run to completion before the disconnect
\* takes effect: it does not return True while the disconnect still waits.
C11_DisconnectCancels ==
    [][\A j \in JobIds :
         (host.pc = "disc_lock" /\ host.busy /\ UploadReturns(j)) => ~job'[j].success]_vars

\* C12: the serial handle is closed before the session counts as released:
\* whenever the session reports disconnected between two requests, no handle
\* it opened is still open.
C12_HandleClosed == (host.pc = "idle" /\ ~is_connected) => (serial = "none" /\ ~orphan)

\* A `$` is in what arrived of the reply before the timeout.
DollarInTime(r) ==
    /\ ~r.fail
    /\ \E k \in 1..Len(r.chunks) :
         /\ r.chunks[k].at < TIMEOUT
         /\ Contains(ReplyText(SubSeq(r.chunks, 1, k)), <<"$">>)

\* The last call is a command that was written to an open session and whose
\* reply raised no I/O error.
CommandAnswered == call.op \in Commands /\ call.conn /\ call.wrote = 1 /\ ~call.reply.fail

\* C13: a command whose reply shows no `$` within the timeout is an error to
\* the caller: _send_command raises instead of returning a response, and the
\* command does not report success.
C13_CommandTimeout ==
    (CommandAnswered /\ ~DollarInTime(call.reply)) => (call.raised /\ ~call.result)

\* The session: the serial handle and the connected flag of the protocol.
session == << serial, proto_connected, orphan >>

\* C14: a command, a status query or an upload on a session that is not
\* connected fails as not connected: the command returns False, the query
\* returns no parsed status, the upload returns False, nothing is written to
\* the port, and the session stays as it is.
C14_NotConnected ==
    [][~is_connected =>
         /\ call' # call =>
               /\ call'.raised /\ ~call'.result
               /\ call'.wrote = 0
               /\ wire' = wire
               /\ session' = session
         /\ \A j \in JobIds : UploadReturns(j) =>
               /\ ~job'[j].success
               /\ wire' = wire
               /\ session' = session]_vars

\* On a closed session a command and a status query were made and an upload
\* has returned.
C14_Witness ==
    /\ ~is_connected
    /\ call.op \in Commands
    /\ ~call.conn
    /\ poller[1] = "loop"
    /\ job[1].pc = "result"

\* C15: a command whose response was read returns True exactly when the
\* response holds `ok` in any case or holds no `E0`.
C15_CommandSuccess ==
    (call.op \in Commands /\ ~call.raised) =>
        (call.result <=> (Contains(Lower(call.text), TokOk) \/ ~Contains(call.text, TokE0)))

\* C16: get_status never returns a torn snapshot. When it has read the
\* fields, they are the fields of one XYZPrinterStatus as one query (or the
\* constructor) left it: both come from the same query, and they are what
\* the object it took from _status still holds.
C16_NoTornSnapshot ==
    host.pc = "got" =>
        /\ status.view.state.q = status.view.extruder_temp.q
        /\ status.view = status.heap[status.s]

\* get_status has read an object that a later query replaced meanwhile.
C16_Witness ==
    /\ host.pc = "got"
    /\ status.s # status.ref
    /\ status.view.state.parsed

\* The dots of text that a letter and a colon follow.
SeparatorDots(text) ==
    { i \in 1..Len(text) :
        /\ text[i] = "."
        /\ i + 2 <= Len(text)
        /\ text[i + 1] \in Letters
        /\ text[i + 2] = ":" }

\* '.'.join(segs)
RECURSIVE Joined(_)
Joined(segs) ==
    IF segs = <<>> THEN <<>>
    ELSE IF Len(segs) = 1 THEN segs[1]
    ELSE segs[1] \o <<".">> \o Joined(Tail(segs))

\* The position in the joined text of the dot that follows segment k.
RECURSIVE SegmentEnd(_, _)
SegmentEnd(segs, k) ==
    IF k = 0 THEN 0 ELSE SegmentEnd(segs, k - 1) + Len(segs[k]) + 1

OneLine(text) == \A i \in 1..Len(text) : text[i] \notin Whitespace

Parsing == call.op \in {"parse", "parsed"}

\* C17: in a reply line a dot separates segments exactly when a letter and a
\* colon follow it, every other dot stays inside its segment; a firmware
\* value of digits and dots is recovered intact, alone or followed by
\* `.j:9002,0`, which then gives state 9002.
C17_DotRule ==
    /\ (Parsing /\ OneLine(call.response)) =>
          /\ Joined(call.segments) = call.response
          /\ { SegmentEnd(call.segments, k) : k \in 1..(Len(call.segments) - 1) }
               = SeparatorDots(call.response)
    /\ call.op = "parsed" =>
          \A f \in Firmwares :
             /\ call.response = <<"v", ":">> \o f => call.status.firmware_version = f
             /\ call.response = <<"v", ":">> \o f \o <<".", "j", ":", "9", "0", "0", "2", ",", "0">> =>
                   /\ call.status.firmware_version = f
                   /\ call.status.state = 9002

\* `v:1.3.5.j:9002,0` was parsed.
C17_Witness ==
    /\ call.op = "parsed"
    /\ call.response = <<"v", ":", "1", ".", "3", ".", "5", ".", "j", ":", "9", "0", "0", "2", ",", "0">>
    /\ call.segments = << <<"v", ":", "1", ".", "3", ".", "5">>,
                          <<"j", ":", "9", "0", "0", "2", ",", "0">> >>
    /\ call.status.firmware_version = <<"1", ".", "3", ".", "5">>
    /\ call.status.state = 9002

\* The key of a segment the loop does not skip.
SegKey(seg) == IF Len(seg) >= 2 /\ seg[2] = ":" THEN seg[1] ELSE ""

SegVal(seg) == SubSeq(seg, 3, Len(seg))

\* The fields that belong to the segments of a key.
Targets(key) ==
    CASE key = "j" -> {"state", "sub_state"}
      [] key = "t" -> {"extruder_temp", "bed_temp", "extruder_target"}
      [] key = "n" -> {"model_number", "machine_name"}
      [] key = "s" -> {"serial_number"}
      [] key = "v" -> {"firmware_version"}
      [] key = "e" -> {"error_code"}
      [] key = "d" -> {"print_pct", "print_elapsed_min", "print_remaining_min"}
      [] key = "f" -> {"filament_remaining_mm"}
      [] key = "o" -> {"z_offset"}
      [] key = "l" -> {"auto_level"}
      [] OTHER -> {}

AllInts(parts) == \A k \in 1..Len(parts) : IsInt(parts[k])

\* A segment of a known key whose value parses.
WellFormed(seg) ==
    LET parts == SplitOn(SegVal(seg), ",")
    IN  /\ SegKey(seg) \in {"j", "t", "v", "e", "o", "d", "f", "s"}
        /\ SegKey(seg) \in {"j", "t", "e", "o", "d", "f"} => AllInts(parts)
        /\ SegKey(seg) \in {"e", "o"} => Len(parts) = 1
        /\ SegKey(seg) = "t" => Len(parts) >= 2

\* st holds what the well-formed segment seg says in its first target field.
TargetSet(seg, st) ==
    LET parts == SplitOn(SegVal(seg), ",")
        key == SegKey(seg)
    IN  CASE key = "j" -> st.state = IntValue(parts[1])
          [] key = "t" -> st.extruder_temp = IntValue(parts[2])
          [] key = "v" -> st.firmware_version = Strip(SegVal(seg))
          [] key = "s" -> st.serial_number = Strip(SegVal(seg))
          [] key = "e" -> st.error_code = IntValue(parts[1])
          [] key = "o" -> st.z_offset = IntValue(parts[1])
          [] key = "d" -> st.print_pct = IntValue(parts[1])
          [] key = "f" -> st.filament_remaining_mm = IntValue(parts[1])

\* C18: the parse is tolerant per segment. A pass of the loop changes only
\* fields of its own segment's key (none for an unknown key), whether its
\* value parses or not; a well-formed segment sets its target field wherever
\* it stands; and the parse returns only after the last segment.
C18_PerSegment ==
    /\ [](call.op = "parsed" => call.i = Len(call.segments) + 1)
    /\ [][(call.op = "parse" /\ call'.op = "parse" /\ call'.i = call.i + 1) =>
            LET seg == call.segments[call.i]
            IN  /\ \A f \in StatusFields \ Targets(SegKey(seg)) :
                      call'.status[f] = call.status[f]
                /\ WellFormed(seg) => TargetSet(seg, call'.status)]_vars

\* A reply was parsed whose second segment of three has a value that is no
\* integer: the first and the third set their fields.
C18_Witness ==
    /\ call.op = "parsed"
    /\ Len(call.segments) = 3
    /\ SegKey(call.segments[2]) = "j"
    /\ ~IsInt(SegVal(call.segments[2]))
    /\ call.response = Joined(call.segments)
    /\ call.segments[1] = <<"v", ":", "1", ".", "3", ".", "5">>
    /\ call.segments[3] = <<"o", ":", "-", "1", "2">>
    /\ call.status.firmware_version = <<"1", ".", "3", ".", "5">>
    /\ call.status.z_offset = 0 - 12
    /\ call.status.state = 0

\* The text convert_gcode_to_3w encrypts for the call.
Processed ==
    Preprocess(call.model_number, call.gcode, call.print_time_sec, call.filament_mm)

\* The length L of what is padded: the UTF-8 text, or its zip.
PlainLength ==
    IF use_ecb(call.model_number) THEN Len(Utf8Encode(Processed))
    ELSE Len(Zip(Utf8Encode(Processed)))

Encoded == call.op \in {"encoded", "decoded"}

\* C19: for every model of the catalog and every G-code text the encoder
\* returns a file that starts with the 16 magic bytes and whose body, the
\* bytes after the 8192 of the header, is ceil((L + 1) / 16) * 16 bytes long.
C19_MagicAndBodyLength ==
    Encoded =>
        /\ ~call.out.raised
        /\ SubSeq(call.out.file, 1, 16) = Magic
        /\ Len(call.out.file) - 8192 = ((PlainLength + 16) \div 16) * 16

\* C20: for every G-code text and every model of the ECB class, the decoder
\* gives back from the encoder's file the preprocessed text.
C20_RoundTrip ==
    (Encoded /\ use_ecb(call.model_number)) =>
        /\ ~call.out.raised
        /\ call.op = "decoded" => call.text = Processed

\* The lines of the text given to _preprocess_gcode, and of its result.
InputLines == SplitLines(call.gcode)

OutputLines == SplitLines(call.once)

Machine(line) == Contains(LowerText(line), <<";", " ", "m", "a", "c", "h", "i", "n", "e">>)

\* One of the first 50 lines of the input contains `; machine`.
MachineInFirst50 ==
    LET input == InputLines
    IN  \E k \in 1..Len(input) : k <= 50 /\ Machine(input[k])

\* C21: _preprocess_gcode is idempotent: run on its own result with the same
\* model, print time and filament, it returns that result.
C21_Idempotent == call.op = "reprocessed" => call.twice = call.once

\* A text whose only `; machine` line is behind the first 50 was processed
\* twice: the first run put the header block first.
C21_Witness ==
    /\ call.op = "reprocessed"
    /\ ~MachineInFirst50
    /\ LET input == InputLines
       IN  /\ \E k \in 51..Len(input) : Machine(input[k])
           /\ Len(OutputLines) = Len(input) + 8
           /\ \E k \in 1..Len(input) : StartsWith(input[k], <<"G", "0", " ">>)

\* A line begins with the G0 word: `G0` and no further digit.
StartsWithG0(line) == StartsWith(line, <<"G", "0">>) /\ (Len(line) = 2 \/ line[3] \notin Digits)

\* C22: no line of the result that is not a comment begins with a G0 word,
\* whatever follows the word: blank, tab, end of line or an axis word.
C22_NoLeadingG0 ==
    call.op \in {"processed", "reprocessed"} =>
        LET output == OutputLines
        IN  \A k \in 1..Len(output) : ~StartsWithG0(output[k])

\* The header block for the call's model, print time and filament.
ExpectedBlock ==
    << <<";", " ", "m", "a", "c", "h", "i", "n", "e", " ", "=", " ">> \o call.model_number,
       <<";", " ", "p", "r", "i", "n", "t", "_", "t", "i", "m", "e", " ", "=", " ">> \o call.print_time_sec,
       <<";", " ", "t", "o", "t", "a", "l", "_", "f", "i", "l", "a", "m", "e", "n", "t", " ", "=", " ">> \o call.filament_mm.whole \o <<".">>
           \o << call.filament_mm.tenth >>,
       <<";", " ", "n", "o", "z", "z", "l", "e", "_", "d", "i", "a", "m", "e", "t", "e", "r", " ", "=", " ", "0", ".", "4">>,
       <<";", " ", "l", "a", "y", "e", "r", "_", "h", "e", "i", "g", "h", "t", " ", "=", " ", "0", ".", "2">>,
       <<";", " ", "f", "i", "l", "a", "m", "e", "n", "t", "_", "d", "i", "a", "m", "e", "t", "e", "r", " ", "=", " ", "1", ".", "7", "5">>,
       <<";", " ", "f", "i", "l", "a", "m", "e", "n", "t", "_", "t", "y", "p", "e", " ", "=", " ", "P", "L", "A">>,
       <<>> >>

\* The lines of the result from line n + 1 on are the input lines, each
\* without blanks around it and with `G1` where it began with `G0`.
InputLinesFollow(n) ==
    LET input == InputLines
        output == OutputLines
    IN  /\ Len(output) = n + Len(input)
        /\ \A k \in 1..Len(input) :
             LET line == Strip(input[k])
                 out == output[n + k]
             IN  \/ out = line
                 \/ /\ StartsWith(line, <<"G", "0">>)
                    /\ out = <<"G", "1">> \o SubSeq(line, 3, Len(line))

IsComment(line) == StartsWith(line, <<";">>)

\* The first line of lines that is a comment, that is text and no comment.
FirstComment(lines) ==
    lines[CHOOSE k \in 1..Len(lines) :
              IsComment(lines[k]) /\ \A m \in 1..(k - 1) : ~IsComment(lines[m])]

FirstCode(lines) ==
    lines[CHOOSE k \in 1..Len(lines) :
              /\ lines[k] # <<>> /\ ~IsComment(lines[k])
              /\ \A m \in 1..(k - 1) : lines[m] = <<>> \/ IsComment(lines[m])]

\* C23: the header block is put first exactly when none of the first 50
\* input lines contains `; machine` in any case; it is the seven comment
\* lines in their order and a blank line, before all the input lines. For
\* `G0 X10 Y20`, `G1 Z0.2` the first comment line is `; machine = <model>`
\* and the first line that is no comment is `G1 X10 Y20`.
C23_HeaderBlock ==
    call.op \in {"processed", "reprocessed"} =>
        /\ MachineInFirst50 => InputLinesFollow(0)
        /\ ~MachineInFirst50 =>
              /\ SubSeq(OutputLines, 1, 8) = ExpectedBlock
              /\ InputLinesFollow(8)
        /\ call.gcode = <<"G", "0", " ", "X", "1", "0", " ", "Y", "2", "0", "\n", "G", "1", " ", "Z", "0", ".", "2", "\n">> =>
              /\ FirstComment(OutputLines) = <<";", " ", "m", "a", "c", "h", "i", "n", "e", " ", "=", " ">> \o call.model_number
              /\ FirstCode(OutputLines) = <<"G", "1", " ", "X", "1", "0", " ", "Y", "2", "0">>

\* `G0 X10 Y20`, `G1 Z0.2` was processed.
C23_Witness ==
    /\ call.op = "processed"
    /\ call.gcode = <<"G", "0", " ", "X", "1", "0", " ", "Y", "2", "0", "\n", "G", "1", " ", "Z", "0", ".", "2", "\n">>
    /\ Len(OutputLines) = 10
    /\ OutputLines[9] = <<"G", "1", " ", "X", "1", "0", " ", "Y", "2", "0">>

\* ---- C24, C25: extract_print_info

\* The lines of the text the call was made on.
InfoInput == SplitLines(call.gcode)

\* No line of the text carries a slicer's time or filament hint.
NoHint ==
    \A k \in 1..Len(InfoInput) :
        LET line == Strip(InfoInput[k])
        IN  /\ TimeHint(line) = <<>>
            /\ EstimatedHint(line) = 0
            /\ FilamentHint(line) = 0

\* No line of the text has an E value that float() accepts.
NoEValue ==
    \A k \in 1..Len(InfoInput) :
        EValue(InfoInput[k]) = <<>> \/ FloatRaises(EValue(InfoInput[k]))

\* C24: for a text with no slicer time or filament hint the returned
\* print_time_sec is at least 60 and filament_mm at least 1 (1000 when no E
\* value parses); for the empty text the result is 60, 1000, 0.
C24_Fallbacks ==
    call.op = "info" =>
        /\ NoHint =>
             /\ call.info.print_time_sec >= 60
             /\ call.info.filament_mm >= 1000
             /\ NoEValue => call.info.filament_mm = 1000 * 1000
        /\ call.gcode = <<>> =>
             call.info = [raised |-> FALSE, print_time_sec |-> 60,
                          filament_mm |-> 1000 * 1000, layer_count |-> 0]

\* C25: when the text has a `;LAYER_COUNT:N` line the returned layer_count
\* is N, however many `;LAYER:` lines come before or after it.
C25_ExplicitCount ==
    call.op = "info" =>
        \A k \in 1..Len(InfoInput) :
            LET line == Strip(InfoInput[k])
            IN  /\ TimeHint(line) = <<>>
                /\ EstimatedHint(line) = 0
                /\ FilamentHint(line) = 0
                /\ LayerCountHint(line) # <<>>
                => call.info.layer_count = DigitsValue(LayerCountHint(line), 0)

\* ---- C26: the header of an encoded file

\* The four bytes of the encoder's file at a header offset.
FieldAt(offset) == SubSeq(call.out.file, offset + 1, offset + 4)

\* The bytes after the header of the encoder's file.
Body == SubSeq(call.out.file, 8192 + 1, Len(call.out.file))

\* The little-endian bytes of a number below 2^24.
LittleEndian(n) == << n % 256, (n \div 256) % 256, n \div 65536, 0 >>

\* C26: every file the encoder returns has a header of 8192 bytes with, in
\* little-endian order, 8192 at offset 80, the number of body bytes at 84,
\* the length of the preprocessed UTF-8 text at 88, the print time at 96,
\* the whole part of the filament length at 100 (3600 and 1234.7 are
\* 10 0E 00 00 and D2 04 00 00), and at 104 the value 2 for a model of the ECB
\* class and 1 for any other, which is the cipher the body was made with.
C26_HeaderFields ==
    (Encoded /\ ~call.out.raised) =>
        /\ Len(call.out.file) >= 8192
        /\ FieldAt(80) = LittleEndian(8192)
        /\ FieldAt(84) = LittleEndian(Len(call.out.file) - 8192)
        /\ FieldAt(88) = LittleEndian(Len(Utf8Encode(Processed)))
        /\ FieldAt(96) = PackDigits(call.print_time_sec)
        /\ call.print_time_sec = <<"3", "6", "0", "0">> => FieldAt(96) = << 16, 14, 0, 0 >>
        /\ FieldAt(100) = PackDigits(call.filament_mm.whole)
        /\ call.filament_mm.whole = <<"1", "2", "3", "4">> => FieldAt(100) = << 210, 4, 0, 0 >>
        /\ FieldAt(104) \in { LittleEndian(1), LittleEndian(2) }
        /\ FieldAt(104) = LittleEndian(2) <=> call.model_number \in ECB_MODELS
        /\ FieldAt(104) = LittleEndian(2) =>
               Unpad(EcbDecrypt(AES_KEY_256, Body)) = Utf8Encode(Processed)
        /\ FieldAt(104) = LittleEndian(1) =>
               LET zip == Unpad(CbcDecrypt(AES_KEY_BASE, AES_IV, Body))
               IN  IsZip(zip) /\ Unzip(zip) = Utf8Encode(Processed)

\* A file was encoded for a model outside the ECB class with the print time
\* 3600 and the filament length 1234.7; another for a model of the ECB class
\* is behind the same step.
C26_Witness ==
    /\ call.op = "encoded"
    /\ ~call.out.raised
    /\ call.model_number = <<"d", "v", "1", "J", "P", "0", "A", "0", "0", "0">>
    /\ call.print_time_sec = <<"3", "6", "0", "0">>
    /\ call.filament_mm = [whole |-> <<"1", "2", "3", "4">>, tenth |-> "7"]
    /\ FieldAt(104) = << 1, 0, 0, 0 >>
    /\ Len(Body) > 0

\* ---- C27, C28, C29: decrypt_3w_to_gcode on any buffer

\* decrypt_3w_to_gcode was called on the buffer and has ended.
Decoded == call.op \in {"text", "raised"} /\ "data" \in DOMAIN call

\* C27: decoding a buffer whose first 16 bytes are not the magic fails with
\* NotA3wFileError and returns no text.
C27_MagicChecked ==
    (Decoded /\ SubSeq(call.data, 1, Min(16, Len(call.data))) # Magic) =>
        call.op = "raised" /\ call.error = "NotA3wFileError"

\* C28: a buffer is decoded to a text only if its body offset field is 8192
\* and its encrypted size field is at most the file size less 8192.
C28_HeaderValidated ==
    (Decoded /\ call.op = "text") =>
        /\ UnpackAt(call.data, 80) = 8192
        /\ UnpackAt(call.data, 84) <= Len(call.data) - 8192

\* The body of the buffer, and what the cipher its enc_type names makes of it.
DataBody ==
    Slice(call.data, UnpackAt(call.data, 80),
          UnpackAt(call.data, 80) + UnpackAt(call.data, 84))

Decrypted ==
    IF UnpackAt(call.data, 104) = 2 THEN EcbDecrypt(AES_KEY_256, DataBody)
    ELSE CbcDecrypt(AES_KEY_BASE, AES_IV, DataBody)

\* The bytes end with a well-formed PKCS#7 padding.
Padded(bytes) ==
    /\ bytes # <<>>
    /\ bytes[Len(bytes)] \in 1..16
    /\ \A k \in 1..Len(bytes) :
         k > Len(bytes) - bytes[Len(bytes)] => bytes[k] = bytes[Len(bytes)]

\* The first n bytes, all of them if there are fewer.
Trimmed(bytes, n) == SubSeq(bytes, 1, Min(n, Len(bytes)))

\* C29: decoding a buffer of at least 8192 bytes does not fail; a decrypted
\* body that does not end with a well-formed PKCS#7 padding is kept as it
\* is, and with enc_type 1 a decrypted body that is no zip is the text.
C29_NeverFails ==
    (Decoded /\ Len(call.data) >= 8192) =>
        /\ call.op = "text"
        /\ (UnpackAt(call.data, 104) = 2 /\ ~Padded(Decrypted)) =>
               call.text = Utf8Decode(Trimmed(Decrypted, UnpackAt(call.data, 88)))
        /\ (UnpackAt(call.data, 104) = 1 /\ ~IsZip(Decrypted)) =>
               call.text = Utf8Decode(Trimmed(Unpad(Decrypted), UnpackAt(call.data, 88)))

\* ---- C30: progress

\* The values thread j's callback got so far are one for each acknowledged
\* block, the k-th the share of the bytes sent with the first k blocks; they
\* grow strictly and none is above 100.
SinkInOrder(j) ==
    LET sink == job[j].sink IN
    /\ Len(sink) = job[j].block_num
    /\ \A k \in 1..Len(sink) :
         /\ sink[k].den = job[j].size
         /\ sink[k].num = Min(k * BlockSize, job[j].size) * 100
         /\ sink[k].num <= 100 * sink[k].den
         /\ k > 1 => sink[k - 1].num < sink[k].num

\* upload_file returned True to thread j for a buffer that is not empty.
Uploaded(j) == job[j].pc = "result" /\ job[j].success /\ job[j].size > 0

\* A job is under way: its thread ran its first statement and has not ended.
UnderWay == \E j \in JobIds : job[j].pc \notin {"unused", "start", "exit"}

\* C30: after each acknowledged block the callback gets one value, the bytes
\* sent over the total times 100; the values grow strictly, none is above
\* 100, and the last one of a successful upload of a buffer that is not
\* empty is 100. The progress of the job record is within 0..100 and does
\* not go down while a job is under way.
C30_Progress ==
    /\ [](\A j \in JobIds :
            /\ SinkInOrder(j)
            /\ Uploaded(j) => job[j].sink[Len(job[j].sink)].num = 100 * job[j].size)
    /\ [](job_status.progress \in 0..100)
    /\ [][UnderWay => job_status'.progress >= job_status.progress]_vars

\* ---- C31: the round trip of the CBC class

\* C31: for every model outside the ECB class and every G-code text, the
\* decoder gives back from the encoder's file the preprocessed text: the
\* PKCS#7 padding is taken from the decrypted buffer and nothing is taken
\* from the text the zip held, also when that text ends with ten `\n`.
C31_CbcRoundTrip ==
    (call.op = "decoded" /\ ~use_ecb(call.model_number)) => call.text = Processed

\* ---- C32: the manager's flag and the session

\* C32: PrinterManager.connected is true exactly when the protocol session
\* is connected, and then PrinterManager.port is the port that was opened.
C32_FlagFollowsSession ==
    /\ connected <=> is_connected
    /\ is_connected => port \in Ports

\* ---- C33: a command's response

\* C33: the text _send_command returns for a command is made of bytes of
\* the reply to that command only: no byte that answers an earlier command,
\* come after its timeout or after its `$`, is part of it.
C33_OwnReply ==
    (call.op = "stream" /\ call.sent > 0) => call.from \subseteq {call.sent}

\* ---- C34: the manager lock

\* C34: under the scheduling of SpecLive a disconnect, a control command and
\* a poller tick that wait for the manager lock get it and return, a
\* disconnect that joins the poller returns and gives the lock back, and
\* the lock is free again and again, so that a connect gets it too.
C34_NoDeadlock ==
    /\ (host.pc = "disc_lock") ~> (host.pc = "idle")
    /\ (host.pc = "cmd_lock") ~> (host.pc = "idle")
    /\ (host.pc = "join") ~> (host.pc = "idle" /\ lock # Host)
    /\ \A i \in PollerIds : (poller[i] = "lock") ~> (poller[i] \in {"loop", "exit"})
    /\ []<>(lock = Free)

\* A disconnect holds the lock and joins a poller that waits for it.
C34_Witness ==
    /\ host.pc = "join"
    /\ lock = Host
    /\ poller[monitor_thread] = "lock"

\* ---- C35: a started job ends

\* C35: under the scheduling of SpecLive a job thread that has set
\* active = True exits, and when it has exited the job record has stage
\* `done` or `error` and active = False.
C35_JobTerminates ==
    /\ \A j \in JobIds :
         (job[j].pc \in {"slice", "convert", "lock", "upload", "frame", "finish", "result"})
           ~> (job[j].pc = "exit")
    /\ [][\A j \in JobIds :
            (job[j].pc # "exit" /\ job'[j].pc = "exit")
              => (job_status'.stage \in {"done", "error"} /\ ~job_status'.active)]_vars
    /\ job_status.active ~> (job_status.stage \in {"done", "error"} /\ ~job_status.active)

\* A job thread has ended after an upload that succeeded.
C35_Witness ==
    /\ \E j \in JobIds : job[j].pc = "exit"
    /\ job_status = [active |-> FALSE, stage |-> "done"]

\* ---- C36: polling after an upload

\* A poller thread calls query_status on the connected session: under the
\* lock it writes XYZv3/query=a.
Polls == \E i \in PollerIds : PollerQuery(i) /\ is_connected

\* C36: under the scheduling of SpecLive the job record does not stay in
\* stage `uploading`, and when the session stays connected from some moment
\* on, a poller gets the lock and queries the printer again and again: no
\* upload leaves the pollers paused for ever.
C36_PollingResumes ==
    /\ (job_status.stage = "uploading") ~> (job_status.stage # "uploading")
    /\ (<>[](connected /\ is_connected)) => []<><<Polls>>_vars

\* An upload has returned on a session that is connected, and a poller that
\* skipped its ticks during the upload is about to test the stage again.
C36_Witness ==
    /\ connected /\ is_connected
    /\ \E j \in JobIds : job[j].pc = "exit"
    /\ job_status.stage \in {"done", "error"}
    /\ \E i \in PollerIds : poller[i] = "lock"

\* ---- C37: a job whose session was closed

\* C37: when a job thread calls upload_file on a session that is not
\* connected, the call returns False and nothing is written to the port, and
\* the thread then ends with stage `error` and active = False.
C37_ClosedSessionJob ==
    /\ [][\A j \in JobIds :
            (job[j].pc = "upload" /\ ~is_connected /\ job'[j] # job[j])
              => (job'[j].pc = "result" /\ ~job'[j].success /\ wire' = wire)]_vars
    /\ [][\A j \in JobIds :
            (job[j].pc = "result" /\ ~job[j].success /\ job'[j] # job[j])
              => (job'[j].pc = "exit" /\ job_status' = [active |-> FALSE, stage |-> "error"])]_vars
    /\ [](\A j \in JobIds :
            (job[j].pc = "result" /\ job[j].log = NoLog)
              => (~job[j].success /\ \A k \in 1..Len(wire) : wire[k].who # Job(j)))

\* A job was accepted on a connected manager, a disconnect closed the session
\* and the upload has returned without a write.
C37_Witness ==
    /\ \E j \in JobIds : job[j].pc = "result" /\ job[j].log = NoLog
    /\ ~connected
    /\ ~is_connected
    /\ wire = <<>>

\* ---- C38: the snapshot of a poll

\* The key of the segment that sets a field of XYZPrinterStatus; no segment
\* sets bed_target.
FieldKey ==
    [f \in StatusFields |->
        CASE f \in {"model_number", "machine_name"} -> "n"
          [] f = "serial_number" -> "s"
          [] f = "firmware_version" -> "v"
          [] f \in {"state", "sub_state"} -> "j"
          [] f \in {"extruder_temp", "extruder_target", "bed_temp"} -> "t"
          [] f \in {"print_pct", "print_elapsed_min", "print_remaining_min"} -> "d"
          [] f = "error_code" -> "e"
          [] f = "filament_remaining_mm" -> "f"
          [] f = "z_offset" -> "o"
          [] f = "auto_level" -> "l"
          [] OTHER -> ""]

\* C38: after a poll the snapshot is the result of that poll alone: a field
\* for which the poll's response has no segment has its default, whatever
\* the snapshot before had, a poll whose query failed leaves the all-default
\* status, and no poll changes the manager's model number, model name and
\* firmware.
C38_PollReplacesSnapshot ==
    /\ [](status.op = "poll" =>
            LET segs == IF status.failed THEN <<>>
                        ELSE Segments(ResponseText(status.reply))
            IN  /\ \A f \in StatusFields :
                     (\A k \in 1..Len(segs) :
                         Len(segs[k]) < 2 \/ segs[k][1] # FieldKey[f] \/ segs[k][2] # ":")
                       => status.snapshot[f] = NewStatus[f]
                /\ status.failed => status.snapshot = NewStatus)
    /\ [][status'.polls # status.polls =>
            /\ status'.model_number = status.model_number
            /\ status'.model_name = status.model_name
            /\ status'.firmware = status.firmware]_vars

\* A poll with the state only came after a snapshot that had the firmware
\* and the temperatures: the snapshot has the new state and the defaults,
\* the manager still has the firmware.
C38_Witness ==
    /\ status.op = "poll"
    /\ status.reply = Text(1, <<"j", ":", "9", "5", "1", "1", ",", "1", "1", "$">>)
    /\ status.snapshot.state = 9511
    /\ status.snapshot.firmware_version = <<>>
    /\ status.firmware = <<"1", ".", "3", ".", "5">>
    /\ status.model_name = "da Vinci miniMaker"

\* ---- C39: the empty payload

\* upload_file of an empty payload has returned after its initiation line
\* was acknowledged.
EmptyUploadDone ==
    /\ job[1].pc = "result"
    /\ job[1].size = 0
    /\ wire # <<>>
    /\ Acked(wire, 1, TIMEOUT)

\* The lines and frames the upload wrote, in their order.
WrittenKinds == [k \in 1..Len(SelectSeq(wire, LAMBDA e : e.ev = "tx")) |->
                    SelectSeq(wire, LAMBDA e : e.ev = "tx")[k].kind]

\* C39 as stated: the upload of an empty payload whose initiation line is
\* acknowledged writes the initiation line with size 0 and
\* XYZv3/uploadDidFinish and no frame, never calls progress_callback, and
\* returns True.
C39_EmptyUpload ==
    EmptyUploadDone =>
        /\ wire[1].data = [name |-> Filename, size |-> 0]
        /\ WrittenKinds = <<"upload", "finish">>
        /\ job[1].callbacks = 0
        /\ job[1].success

\* C39, amended: the upload of an empty payload whose initiation line is
\* acknowledged writes the initiation line with size 0, no frame, and then
\* XYZv3/uploadDidFinish; it never calls progress_callback; it returns True
\* when XYZv3/uploadDidFinish was written and its reply awaited without an
\* I/O error of the port, and False when that write or that read raised.
C39_EmptyUploadUnlessIoError ==
    EmptyUploadDone =>
        /\ wire[1].data = [name |-> Filename, size |-> 0]
        /\ WrittenKinds = IF TxAt(wire, {"finish"}) # {} THEN <<"upload", "finish">>
                          ELSE <<"upload">>
        /\ job[1].callbacks = 0
        /\ job[1].success = FinishExchanged

\* An empty payload was uploaded: two lines written, True returned.
C39_Witness ==
    /\ EmptyUploadDone
    /\ job[1].success
    /\ Len(wire) = 5
    /\ wire[3].kind = "finish"

====
